---- MODULE Spec2Model ----
(***************************************************************************)
(* A model of ccc (Claude Code Companion): the terminal-scraping output    *)
(* mirror (monitor.go), the streaming relay (relay.go), the busy latch of  *)
(* the headless listener and the single-instance lock of the dispatch loop *)
(* (commands.go).  Each subsystem has its own specification; the variables *)
(* of the other subsystems stay at their initial values under it.          *)
(***************************************************************************)
EXTENDS Integers, Sequences, FiniteSets, TLC

(***************************************************************************)
(* Bounds of the model.                                                    *)
(***************************************************************************)
\* how many events of the mirror's environment a behaviour has: a change
\* of the pane's blocks, a restart of the listener, a cleared session
EnvBudget == 2
\* how many events the relay's environment has in a behaviour: a request,
\* a sweep, a receiver that disconnects, a failed write or body read
MaxRequests == 4
\* how many chunks the sender's file has
FileChunks == 2
\* how many prompts the headless listener dispatches in a behaviour
MaxPrompts == 3
\* how many "ccc listen" processes a behaviour starts
MaxProcs == 3

\* how many events the dispatch loop's environment has in a behaviour: an
\* update sent to the bot, a start of the listener process
MaxLoopEvents == 4
\* how many events the registry's environment has in a behaviour: an update
\* dispatched by the loop, a command started in a terminal
MaxRegistryEvents == 4

\* how many times the config file is loaded
MaxLoads == 2

\* how many one-shot runs are started
MaxJobs == 3

\* the longest text given to splitMessage
MaxText == 8

\* the longest cause text of a transport error
MaxCause == 3

\* how many times the config is saved
MaxSaves == 6

(***************************************************************************)
(* Program constants.                                                      *)
(***************************************************************************)
\* blockHash keeps this many leading characters (100 in the source; the
\* model's texts are at most 2 characters long, so the prefix is scaled)
HashLen == 1
\* isStatusBlock only looks at blocks shorter than this (50 in the source,
\* scaled with the texts)
StatusMaxLen == 2
\* polls with unchanged blocks before completion is considered
StableNeeded == 3
\* the msg_id that marks "shown before restart"
Sentinel == -1
\* capacity of a transfer's data channel (100 in the source; scaled with
\* the file so that the sender meets a full channel)
DataChanCap == 1

\* telegram.go:119, maxLen = 4000, scaled
SplitWindow == 6

\* Characters of block texts: "w" stands for a status word ("working"),
\* " " for white space.
StatusWords == {"w"}
\* The block texts the agent can draw.  extractBlocks trims every block,
\* so no text starts or ends with white space.  <<"b">> and
\* <<"b","x">> share a hash; <<"w">> is a status block.
Texts == {<<"a">>, <<"b">>, <<"b", "x">>, <<"w">>}

(***************************************************************************)
(* Pure helpers of monitor.go.                                             *)
(***************************************************************************)
RECURSIVE TrimLeft(_)
TrimLeft(t) ==
  IF t # <<>> /\ Head(t) = " " THEN TrimLeft(Tail(t)) ELSE t

RECURSIVE TrimRight(_)
TrimRight(t) ==
  IF t # <<>> /\ t[Len(t)] = " " THEN TrimRight(SubSeq(t, 1, Len(t) - 1)) ELSE t

TrimSpace(t) == TrimRight(TrimLeft(t))

blockHash(text) ==
  LET normalized == TrimSpace(text)
  IN IF Len(normalized) > HashLen THEN SubSeq(normalized, 1, HashLen) ELSE normalized

isStatusBlock(text) ==
  /\ Len(text) < StatusMaxLen
  /\ \E i \in 1..Len(text) : text[i] \in StatusWords

blocksEqual(a, b) ==
  /\ Len(a) = Len(b)
  /\ \A i \in 1..Len(a) : TrimSpace(a[i]) = TrimSpace(b[i])

EmptyMap == [h \in {} |-> 0]

MapPut(m, k, v) == [x \in (DOMAIN m) \cup {k} |-> IF x = k THEN v ELSE m[x]]

\* what loadBlockCache returns when the file is missing or unreadable
EmptyCache == [exists |-> FALSE, Blocks |-> <<>>, Hashes |-> EmptyMap]

CachedBlock(text, id, hash) == [Text |-> text, MsgID |-> id, Hash |-> hash]

NewMonitor == [LastBlocks |-> <<>>, StableCount |-> 0, Completed |-> FALSE]

\* addresses of SessionMonitor structs: the map's entry, and the one the
\* monitor goroutine may still hold after the entry was deleted
MonIds == 1..2

(***************************************************************************)
(* The mirror watches one session, "proj".                                 *)
(***************************************************************************)
VARIABLES
  \* the environment of the mirror
  pane,        \* what getLastBlocksFromTmux extracts right now
  idle,        \* what isClaudeIdle answers right now
  live,        \* tmuxSessionExists
  envEvents,   \* how many environment events have happened so far
  \* monitor.go
  monHeap,     \* the SessionMonitor structs, by address
  monitors,    \* address of monitors["proj"], 0 = no entry
  cacheFile,   \* the BlockCache file of the session
  nextMsgID,   \* the id the chat API gives the next message
  mpc,         \* where the monitor goroutine is
  pMon,        \* its `mon` pointer, 0 = none
  pExists,     \* its `exists`
  pBlocks,     \* its `blocks`
  \* observation
  apiWrites,   \* the chat API calls of the latest step, in order
  prevPoll,    \* the previous poll's block list, and whether every
               \* extraction of that poll yielded it
  curSame,     \* whether every extraction of the poll in progress agreed
  inSuffix,    \* the latest step synced a block list that this poll and the
               \* previous one extracted every time
  finalSync,   \* the latest step was the completion sync, of blocks it
               \* found as the poll had captured them
  seeded,      \* hashes initializeMonitors gave the sentinel
  sendFailed   \* a sendMessage call has failed since the cache was last cleared

varsMirror == <<pane, idle, live, envEvents, monHeap, monitors,
                cacheFile, nextMsgID, mpc, pMon, pExists, pBlocks, apiWrites,
                prevPoll, curSame, inSuffix, finalSync, seeded, sendFailed>>

(***************************************************************************)
(* The relay serves one token.                                             *)
(***************************************************************************)
VARIABLES
  transfers,   \* relayTransfers.transfers[token]: address of the struct, 0 = none
  tHeap,       \* the relayTransfer structs, by address: [Status, Chan]
  chans,       \* the channel pairs ever made: [buf, closed, done]
  muStuck,     \* a handler panicked while holding relayTransfers' lock
  reqs,        \* the /d and /stream handlers that got past their first checks
  relayEvents, \* requests, sweeps, disconnects and i/o failures so far
  dResp,       \* the /d request the latest step answered: [ua, method, code]
  spoiled      \* a cancel, sweep, disconnect, write error or sender abort happened

varsRelay == <<transfers, tHeap, chans, muStuck, reqs, relayEvents, dResp, spoiled>>

(***************************************************************************)
(* The headless listener's prompt handlers.                                *)
(***************************************************************************)
VARIABLES
  busySessions, \* the sync.Map's keys
  calls,        \* the handleHeadlessPrompt calls so far: [name, pc, ...]
  agents        \* how many agent processes each session name has in flight

varsHeadless == <<busySessions, calls, agents>>

(***************************************************************************)
(* The processes started as "ccc listen" and the lock on ~/.ccc.lock.      *)
(***************************************************************************)
VARIABLES
  procs,        \* the processes so far: [pc, refused, polled, commands, monitor, code]
  lockHolder    \* the process whose open file holds the flock, 0 = none

varsListen == <<procs, lockHolder>>

(***************************************************************************)
(* The dispatch loop of "ccc listen" and the chat platform's update queue. *)
(***************************************************************************)
VARIABLES
  updates,      \* the updates the platform has received, by update_id: [from, kind]
  confirmed,    \* the platform has dropped every update with a smaller id
  lpc,          \* where the loop is: "down", "fetch", "batch", "handle"
  offset,       \* listen's offset
  batch,        \* the ids of updates.Result not yet taken
  cur,          \* the id of the update being handled, 0 = none
  goroutines,   \* the ids whose handler runs in a goroutine of its own
  finished,     \* the ids whose handler has run to its end at least once
  effects,      \* what handlers did: [id, what]
  exit,         \* why the process ended last: "none", "signal", "panic", "update"
  runs          \* how many times the process was started

varsDispatch == <<updates, confirmed, lpc, offset, batch, cur, goroutines,
                  finished, effects, exit, runs>>

(***************************************************************************)
(* The session registry in ~/.ccc.json and the programs that rewrite it:   *)
(* a listener's dispatch loop, the headless turns it starts, and a "ccc"   *)
(* command run in a terminal.                                              *)
(***************************************************************************)
VARIABLES
  file,         \* the sessions of the config file: name -> [topic, resume]
  objs,         \* the Config structs of the listener process, by address
  config,       \* the address the loop's `config` holds
  hpc,          \* the registry command the loop is in: [cmd, name, topic]
  turn,         \* per session, the handleHeadlessPrompt call that holds the latch
  cli,          \* the terminal command: [pc, name, snap]
  nextTopic,    \* the thread id the platform gives the next topic
  nextUUID,     \* stands for the next value of generateUUID
  stored,       \* per session, the resume id minted and saved since the last reset
  regEvents     \* updates dispatched and terminal commands started so far

varsRegistry == <<file, objs, config, hpc, turn, cli, nextTopic, nextUUID,
                  stored, regEvents>>

(***************************************************************************)
(* loadConfig and the config file it reads and, when it migrates, rewrites.*)
(***************************************************************************)
VARIABLES
  cfgFile,      \* ~/.ccc.json: [format, sessions, projectsDir]
  origFile,     \* the file as it was before the first load
  loadResult,   \* what the latest loadConfig returned: [err, sessions,
                \* fields, projectsDir]
  firstResult,  \* what the first loadConfig returned
  loadCount,    \* how many times loadConfig has run
  migrations    \* how many of the runs migrated

varsConfig == <<cfgFile, origFile, loadResult, firstResult, loadCount, migrations>>

(***************************************************************************)
(* The one-shot runs: the agent of the private chat and the shell of /c.   *)
(***************************************************************************)
VARIABLES
  jobs          \* the runs so far: [kind, pc, deadline, err, reply]

varsOneShot == <<jobs>>

(***************************************************************************)
(* splitMessage and the text it is given.                                  *)
(***************************************************************************)
VARIABLES
  msgText,      \* the text to send, a sequence of bytes
  parts,        \* what splitMessage returned
  cuts,         \* per loop iteration that cut: [remaining, splitAt]
  split         \* whether splitMessage has run

varsSplit == <<msgText, parts, cuts, split>>

(***************************************************************************)
(* The chat API helpers and the errors they return.                        *)
(***************************************************************************)
VARIABLES
  botToken,     \* config.BotToken, a sequence of characters
  returned,     \* the error text the latest failed helper returned
  userText      \* the text the handler then sent to the user

varsRedact == <<botToken, returned, userText>>

(***************************************************************************)
(* The bytes of ~/.ccc.json while programs save and load it.               *)
(***************************************************************************)
VARIABLES
  disk,         \* the file's content: 0 = empty, v > 0 = the complete version v
  wpc,          \* per writer, the version it is writing, 0 = not in saveConfig
  saves,        \* how many saveConfig calls have started
  seen          \* what the latest loadConfig read: [by, content, err]

varsRewrite == <<disk, wpc, saves, seen>>

(***************************************************************************)
(* The sessions of the registry, their multiplexer sessions and their      *)
(* project directories, as the dispatch loop's commands change them.       *)
(***************************************************************************)
VARIABLES
  sessions,     \* the names registered in config.Sessions
  tmuxServer,   \* the names of the live tmux sessions
  workDirs,     \* the registered or once registered names whose work_dir exists
  addressed,    \* the tmux commands of the latest step: [op, name, id]
  probes,       \* the tmuxSessionExists calls of the latest step: [id, result, exact]
  lastText      \* the latest text message in a topic: [name, steps, keysTo]

varsSessions == <<sessions, tmuxServer, workDirs, addressed, probes, lastText>>

(***************************************************************************)
(* extractBlocks applied to the lines of a captured pane.                  *)
(***************************************************************************)
VARIABLES
  screen,       \* the lines given to extractBlocks
  extracted,    \* the blocks it returned
  ran           \* whether it has run

varsExtract == <<screen, extracted, ran>>

(***************************************************************************)
(* The sync of the mirror in two steps, for the races of a poll in flight  *)
(* with the dispatch loop.                                                 *)
(***************************************************************************)
VARIABLES
  pCache,       \* what the sync in flight has read: [cache, blocks]
  clearedAt     \* the next message id when a clear ran during the poll in
                \* flight, 0 = no clear since the poll began

varsRace == <<pCache, clearedAt>>

vars == <<varsMirror, varsRelay, varsHeadless, varsListen, varsDispatch,
          varsRegistry, varsConfig, varsOneShot, varsSplit, varsRedact,
          varsRewrite, varsSessions, varsExtract, varsRace>>

SessionNames == {"proj", "other"}

(***************************************************************************)
(* syncBlocksToTelegram, from the cache it loaded and the blocks it        *)
(* captured.  A chat API call is recorded as                               *)
(*   [op, ok, id, hash, final, text]                                       *)
(* op "post" is sendMessageGetID (ok: a message was created, with id),     *)
(* op "edit" is editMessage of message id (its failure is ignored by the   *)
(* code); final says the text carries the completion prefix.               *)
(***************************************************************************)
Write(op, ok, id, hash, final, text) ==
  [op |-> op, ok |-> ok, id |-> id, hash |-> hash, final |-> final, text |-> text]

\* index of the first cached block with this hash, 0 if none (lines 342-354)
FirstWithHash(cblocks, hash) ==
  IF \E j \in 1..Len(cblocks) : cblocks[j].Hash = hash
  THEN CHOOSE j \in 1..Len(cblocks) :
         /\ cblocks[j].Hash = hash
         /\ \A k \in 1..(j - 1) : cblocks[k].Hash # hash
  ELSE 0

\* a faulty variant of ShownBeforeRestart: the sentinel is not recognised
ShownBeforeRestartIgnored(hashes, hash) == FALSE

\* lines 334-335: the hash is cached with the sentinel
ShownBeforeRestart(hashes, hash) ==
  hash \in DOMAIN hashes /\ hashes[hash] = Sentinel

\* one iteration of the loop at lines 320-370; acc is
\* [Hashes, Blocks, newBlocks, writes, next]
SyncBlock(acc, block, isLast, isFinal, up) ==
  LET hash == blockHash(block)
      final == isFinal /\ isLast
      known == hash \in DOMAIN acc.Hashes
      j == FirstWithHash(acc.Blocks, hash)
      sendOK == up
  IN
  IF isStatusBlock(block) THEN acc
  ELSE IF ShownBeforeRestart(acc.Hashes, hash) THEN
    [acc EXCEPT !.newBlocks = Append(@, CachedBlock(block, Sentinel, hash))]
  ELSE IF known /\ acc.Hashes[hash] > 0 THEN
    LET id == acc.Hashes[hash]
        changed == j # 0 /\ TrimSpace(acc.Blocks[j].Text) # TrimSpace(block)
        edits == j # 0 /\ (changed \/ final)
    IN [acc EXCEPT
          !.Blocks = IF changed THEN [@ EXCEPT ![j].Text = block] ELSE @,
          !.writes = IF edits
                     THEN Append(@, Write("edit", up, id, hash, final, block))
                     ELSE @,
          !.newBlocks = Append(@, CachedBlock(block, id, hash))]
  ELSE IF sendOK THEN
    [acc EXCEPT
       !.Hashes = MapPut(@, hash, acc.next),
       !.writes = Append(@, Write("post", TRUE, acc.next, hash, final, block)),
       !.newBlocks = Append(@, CachedBlock(block, acc.next, hash)),
       !.next = @ + 1]
  ELSE
    [acc EXCEPT
       !.writes = Append(@, Write("post", FALSE, 0, hash, final, block)),
       !.newBlocks = Append(@, CachedBlock(block, 0, hash))]

RECURSIVE SyncLoop(_, _, _, _, _)
SyncLoop(acc, blocks, i, isFinal, up) ==
  IF i > Len(blocks) THEN acc
  ELSE SyncLoop(SyncBlock(acc, blocks[i], i = Len(blocks), isFinal, up[i]),
                blocks, i + 1, isFinal, up)

\* the whole of syncBlocksToTelegram: [n, cache, writes, next]; up[i] says
\* whether the chat API call made for block i succeeds
syncBlocksToTelegram(cache, blocks, isFinal, up, next) ==
  IF Len(blocks) = 0
  THEN [n |-> 0, cache |-> cache, writes |-> <<>>, next |-> next]
  ELSE LET acc == SyncLoop([Hashes |-> cache.Hashes, Blocks |-> cache.Blocks,
                            newBlocks |-> <<>>, writes |-> <<>>, next |-> next],
                           blocks, 1, isFinal, up)
       IN [n |-> Len(blocks),
           cache |-> [exists |-> TRUE, Blocks |-> acc.newBlocks, Hashes |-> acc.Hashes],
           writes |-> acc.writes,
           next |-> acc.next]

(***************************************************************************)
(* The cache file.                                                         *)
(***************************************************************************)
loadBlockCache == cacheFile

saveBlockCache(cache) == [cache EXCEPT !.exists = TRUE]

\* initializeMonitors' loop at lines 412-418 over blocks[i..]
RECURSIVE SeedSentinels(_, _, _)
SeedSentinels(cache, blocks, i) ==
  IF i > Len(blocks) THEN cache
  ELSE LET hash == blockHash(blocks[i])
       IN IF hash \in DOMAIN cache.Hashes
          THEN SeedSentinels(cache, blocks, i + 1)
          ELSE SeedSentinels(
                 [cache EXCEPT
                    !.Hashes = MapPut(@, hash, Sentinel),
                    !.Blocks = Append(@, CachedBlock(blocks[i], Sentinel, hash))],
                 blocks, i + 1)

\* the first-seen seeding at lines 476-482
SeedFirstSeen(cache, blocks) ==
  IF Len(cache.Blocks) = 0
  THEN saveBlockCache(
         [cache EXCEPT !.Blocks = [i \in 1..Len(blocks) |-> CachedBlock(blocks[i], 0, <<>>)]])
  ELSE cache

(***************************************************************************)
(* Observation helpers.                                                    *)
(***************************************************************************)
NoPoll == [blocks |-> <<>>, same |-> FALSE]

AnyFailed(writes) == \E i \in 1..Len(writes) : writes[i].op = "post" /\ ~writes[i].ok

Quiet == /\ apiWrites' = <<>>
         /\ inSuffix' = FALSE
         /\ finalSync' = FALSE

\* a struct nobody points to any more is dropped
Collect(heap, refs) == [m \in MonIds |-> IF m \in refs THEN heap[m] ELSE NewMonitor]

FreeMon(refs) == CHOOSE m \in MonIds : m \notin refs

(***************************************************************************)
(* The mirror's environment.                                               *)
(***************************************************************************)
\* The agent draws: it appends a block, rewrites the last block, opens a
\* new turn with its first block, or the screen is cleared.
PaneMoves(p) ==
  {Append(p, t) : t \in Texts}
  \cup (IF p = <<>> THEN {} ELSE {[p EXCEPT ![Len(p)] = t] : t \in Texts \ {p[Len(p)]}})
  \cup {<<t>> : t \in Texts}
  \cup {<<>>}

PaneChange ==
  /\ live
  /\ envEvents < EnvBudget
  /\ \E p \in PaneMoves(pane) : p # pane /\ pane' = p
  /\ envEvents' = envEvents + 1
  /\ Quiet
  /\ UNCHANGED <<idle, live, monHeap, monitors, cacheFile, nextMsgID,
                 mpc, pMon, pExists, pBlocks, prevPoll, curSame, seeded, sendFailed>>

\* the session's multiplexer session is started
TmuxStart ==
  /\ ~live
  /\ live' = TRUE
  /\ Quiet
  /\ UNCHANGED <<pane, idle, envEvents, monHeap, monitors, cacheFile, nextMsgID,
                 mpc, pMon, pExists, pBlocks, prevPoll, curSame, seeded, sendFailed>>

IdleChange ==
  /\ idle' = ~idle
  /\ Quiet
  /\ UNCHANGED <<pane, live, envEvents, monHeap, monitors, cacheFile,
                 nextMsgID, mpc, pMon, pExists, pBlocks, prevPoll, curSame, seeded, sendFailed>>

\* the listener process is restarted (/restart, /update, the service
\* manager): memory is lost, the cache file stays
Restart ==
  /\ envEvents < EnvBudget
  /\ envEvents' = envEvents + 1
  /\ mpc' = "init"
  /\ monitors' = 0
  /\ monHeap' = [m \in MonIds |-> NewMonitor]
  /\ pMon' = 0 /\ pExists' = FALSE /\ pBlocks' = <<>>
  /\ prevPoll' = NoPoll /\ curSame' = FALSE
  /\ Quiet
  /\ UNCHANGED <<pane, idle, live, cacheFile, nextMsgID, seeded, sendFailed>>

(***************************************************************************)
(* monitor.go: the monitor goroutine.                                      *)
(***************************************************************************)
initializeMonitors ==
  /\ mpc = "init"
  /\ mpc' = "tick"
  /\ IF live
     THEN LET cache == loadBlockCache
          IN /\ monitors' = 1
             /\ monHeap' = [monHeap EXCEPT ![1] =
                              [LastBlocks |-> pane, StableCount |-> 0, Completed |-> idle]]
             /\ cacheFile' = saveBlockCache(SeedSentinels(cache, pane, 1))
             /\ seeded' = seeded \cup
                            {blockHash(pane[i]) : i \in {k \in 1..Len(pane) :
                                                   blockHash(pane[k]) \notin DOMAIN cache.Hashes}}
     ELSE UNCHANGED <<monitors, monHeap, cacheFile, seeded>>
  /\ Quiet
  /\ UNCHANGED <<pane, idle, live, envEvents, nextMsgID, pMon,
                 pExists, pBlocks, prevPoll, curSame, sendFailed>>

\* lines 441-511: the session is live; look the monitor up or create it,
\* capture, then the branches up to the next look at the pane
PollCapture ==
  /\ mpc = "tick"
  /\ live
  /\ LET blocks == pane
         exists == monitors # 0
         m == IF exists THEN monitors ELSE FreeMon({})
         heap == IF exists THEN monHeap ELSE [monHeap EXCEPT ![m] = NewMonitor]
         mon == heap[m]
     IN
     /\ monitors' = m
     /\ IF ~exists /\ Len(blocks) > 0
        THEN \* first time seeing this session
             /\ monHeap' = [heap EXCEPT ![m].LastBlocks = blocks, ![m].StableCount = 0]
             /\ mpc' = "seed"
             /\ pMon' = m /\ pExists' = exists /\ pBlocks' = blocks
             /\ curSame' = TRUE
             /\ UNCHANGED prevPoll
        ELSE IF Len(blocks) = 0
        THEN \* no blocks: the poll of this session ends
             /\ mpc' = "tick"
             /\ monHeap' = IF mon.Completed THEN heap
                           ELSE [heap EXCEPT ![m].LastBlocks = <<>>, ![m].StableCount = 0]
             /\ pMon' = 0 /\ pExists' = FALSE /\ pBlocks' = <<>>
             /\ prevPoll' = [blocks |-> blocks, same |-> TRUE]
             /\ curSame' = FALSE
        ELSE IF ~blocksEqual(blocks, mon.LastBlocks)
        THEN /\ monHeap' = [heap EXCEPT ![m].LastBlocks = blocks,
                                        ![m].StableCount = 0,
                                        ![m].Completed = FALSE]
             /\ mpc' = "sync"
             /\ pMon' = m /\ pExists' = exists /\ pBlocks' = blocks
             /\ curSame' = TRUE
             /\ UNCHANGED prevPoll
        ELSE /\ monHeap' = [heap EXCEPT ![m].StableCount =
                              IF @ < StableNeeded THEN @ + 1 ELSE @]
             /\ mpc' = "probe"
             /\ pMon' = m /\ pExists' = exists /\ pBlocks' = blocks
             /\ curSame' = TRUE
             /\ UNCHANGED prevPoll
  /\ Quiet
  /\ UNCHANGED <<pane, idle, live, envEvents, cacheFile, nextMsgID, seeded, sendFailed>>

\* lines 468-485: first-seen seeding, after the capture
PollSeed ==
  /\ mpc = "seed"
  /\ mpc' = "tick"
  /\ monHeap' = Collect(IF idle THEN [monHeap EXCEPT ![pMon].Completed = TRUE]
                        ELSE monHeap,
                        {monitors})
  /\ cacheFile' = SeedFirstSeen(loadBlockCache, pBlocks)
  /\ pMon' = 0 /\ pExists' = FALSE /\ pBlocks' = <<>>
  /\ prevPoll' = [blocks |-> pBlocks, same |-> curSame]
  /\ curSame' = FALSE
  /\ Quiet
  /\ UNCHANGED <<pane, idle, live, envEvents, monitors, nextMsgID,
                 seeded, sendFailed>>

\* line 508: the intermediate sync of changed blocks
PollSync ==
  /\ mpc = "sync"
  /\ mpc' = "probe"
  /\ \E apiUp \in [0..Len(pane) -> BOOLEAN] :
     LET r == syncBlocksToTelegram(loadBlockCache, pane, FALSE, apiUp, nextMsgID)
         same == curSame /\ pane = pBlocks
     IN /\ cacheFile' = IF r.n = 0 THEN cacheFile ELSE saveBlockCache(r.cache)
        /\ nextMsgID' = r.next
        /\ apiWrites' = r.writes
        /\ curSame' = same
        /\ inSuffix' = (same /\ prevPoll.same /\ prevPoll.blocks = pBlocks)
        /\ sendFailed' = (sendFailed \/ AnyFailed(r.writes))
  /\ finalSync' = FALSE
  /\ UNCHANGED <<pane, idle, live, envEvents, monHeap, monitors,
                 pMon, pExists, pBlocks, prevPoll, seeded>>

\* lines 515-517: probe idleness and decide on completion
PollProbe ==
  /\ mpc = "probe"
  /\ LET mon == monHeap[pMon]
     IN IF ~mon.Completed /\ mon.StableCount >= StableNeeded /\ idle
        THEN /\ mpc' = "final"
             /\ UNCHANGED <<monHeap, pMon, pExists, pBlocks, prevPoll, curSame>>
        ELSE /\ mpc' = "tick"
             /\ monHeap' = Collect(monHeap, {monitors})
             /\ pMon' = 0 /\ pExists' = FALSE /\ pBlocks' = <<>>
             /\ prevPoll' = [blocks |-> pBlocks, same |-> curSame]
             /\ curSame' = FALSE
  /\ Quiet
  /\ UNCHANGED <<pane, idle, live, envEvents, monitors, cacheFile,
                 nextMsgID, seeded, sendFailed>>

\* lines 518-522: the completion sync
PollFinal ==
  /\ mpc = "final"
  /\ mpc' = "tick"
  /\ \E apiUp \in [0..Len(pane) -> BOOLEAN] :
     LET r == syncBlocksToTelegram(loadBlockCache, pane, TRUE, apiUp, nextMsgID)
         same == curSame /\ pane = pBlocks
         sendOK == apiUp[0]
     IN /\ cacheFile' = IF r.n = 0 THEN cacheFile ELSE saveBlockCache(r.cache)
        /\ IF r.n = 0
           THEN \* nothing to sync: a bare completion message
                /\ apiWrites' = <<Write("post", sendOK, IF sendOK THEN nextMsgID ELSE 0,
                                        <<>>, TRUE, <<>>)>>
                /\ nextMsgID' = IF sendOK THEN nextMsgID + 1 ELSE nextMsgID
           ELSE /\ apiWrites' = r.writes
                /\ nextMsgID' = r.next
        /\ inSuffix' = (same /\ prevPoll.same /\ prevPoll.blocks = pBlocks)
        /\ prevPoll' = [blocks |-> pBlocks, same |-> same]
        /\ sendFailed' = (sendFailed \/ AnyFailed(apiWrites'))
        /\ finalSync' = same
  /\ monHeap' = Collect([monHeap EXCEPT ![pMon].Completed = TRUE], {monitors})
  /\ pMon' = 0 /\ pExists' = FALSE /\ pBlocks' = <<>>
  /\ curSame' = FALSE
  /\ UNCHANGED <<pane, idle, live, envEvents, monitors, seeded>>

(***************************************************************************)
(* monitor.go: the hooks the dispatch loop calls.                          *)
(***************************************************************************)
ResetSessionMonitor ==
  /\ mpc # "init"
  /\ IF monitors # 0
     THEN /\ monHeap' = [monHeap EXCEPT ![monitors].Completed = FALSE,
                                        ![monitors].StableCount = 0]
          /\ UNCHANGED monitors
     ELSE LET m == FreeMon({pMon})
          IN /\ monitors' = m
             /\ monHeap' = [monHeap EXCEPT ![m] = NewMonitor]
  /\ Quiet
  /\ UNCHANGED <<pane, idle, live, envEvents, cacheFile, nextMsgID,
                 mpc, pMon, pExists, pBlocks, prevPoll, curSame, seeded, sendFailed>>

\* lines 555-560: the map entry and the cache file are deleted
ClearState ==
  /\ monitors' = 0
  /\ monHeap' = Collect(monHeap, {pMon})
  /\ cacheFile' = EmptyCache
  /\ seeded' = {}
  /\ sendFailed' = FALSE
  /\ prevPoll' = NoPoll
  /\ curSame' = FALSE

ClearSessionMonitor ==
  /\ mpc # "init"
  /\ envEvents < EnvBudget
  /\ envEvents' = envEvents + 1
  /\ ClearState
  /\ Quiet
  /\ UNCHANGED <<pane, idle, live, nextMsgID, mpc, pMon, pExists, pBlocks>>

(***************************************************************************)
(* commands.go: the commands of the dispatch loop that restart or remove   *)
(* the session.  killTmuxSession ends the multiplexer session, and         *)
(* createTmuxSession starts one with an empty screen, or fails.            *)
(***************************************************************************)
\* lines 870-904: /continue in the session's topic
CommandContinue ==
  /\ mpc # "init"
  /\ envEvents < EnvBudget
  /\ envEvents' = envEvents + 1
  /\ ClearState
  /\ \E started \in BOOLEAN : live' = started
  /\ pane' = <<>>
  /\ Quiet
  /\ UNCHANGED <<idle, nextMsgID, mpc, pMon, pExists, pBlocks>>

\* lines 907-931: /delete in the session's topic
CommandDelete ==
  /\ mpc # "init"
  /\ envEvents < EnvBudget
  /\ envEvents' = envEvents + 1
  /\ ClearState
  /\ live' = FALSE
  /\ pane' = <<>>
  /\ Quiet
  /\ UNCHANGED <<idle, nextMsgID, mpc, pMon, pExists, pBlocks>>

\* lines 1019-1046: /new without a name in the session's topic; neither
\* ClearSessionMonitor nor ResetSessionMonitor is called
CommandNew ==
  /\ mpc # "init"
  /\ envEvents < EnvBudget
  /\ envEvents' = envEvents + 1
  /\ \E started \in BOOLEAN : live' = started
  /\ pane' = <<>>
  /\ Quiet
  /\ UNCHANGED <<idle, monHeap, monitors, cacheFile, nextMsgID, mpc, pMon,
                 pExists, pBlocks, prevPoll, curSame, seeded, sendFailed>>

(***************************************************************************)
(* The mirror's specification.                                             *)
(***************************************************************************)
NextMirror ==
  \/ PaneChange /\ UNCHANGED <<varsRelay, varsHeadless, varsListen, varsDispatch, varsRegistry, varsConfig, varsOneShot, varsSplit, varsRedact, varsRewrite, varsSessions, varsExtract, varsRace>>
  \/ IdleChange /\ UNCHANGED <<varsRelay, varsHeadless, varsListen, varsDispatch, varsRegistry, varsConfig, varsOneShot, varsSplit, varsRedact, varsRewrite, varsSessions, varsExtract, varsRace>>
  \/ TmuxStart /\ UNCHANGED <<varsRelay, varsHeadless, varsListen, varsDispatch, varsRegistry, varsConfig, varsOneShot, varsSplit, varsRedact, varsRewrite, varsSessions, varsExtract, varsRace>>
  \/ Restart /\ UNCHANGED <<varsRelay, varsHeadless, varsListen, varsDispatch, varsRegistry, varsConfig, varsOneShot, varsSplit, varsRedact, varsRewrite, varsSessions, varsExtract, varsRace>>
  \/ initializeMonitors /\ UNCHANGED <<varsRelay, varsHeadless, varsListen, varsDispatch, varsRegistry, varsConfig, varsOneShot, varsSplit, varsRedact, varsRewrite, varsSessions, varsExtract, varsRace>>
  \/ PollCapture /\ UNCHANGED <<varsRelay, varsHeadless, varsListen, varsDispatch, varsRegistry, varsConfig, varsOneShot, varsSplit, varsRedact, varsRewrite, varsSessions, varsExtract, varsRace>>
  \/ PollSeed /\ UNCHANGED <<varsRelay, varsHeadless, varsListen, varsDispatch, varsRegistry, varsConfig, varsOneShot, varsSplit, varsRedact, varsRewrite, varsSessions, varsExtract, varsRace>>
  \/ PollSync /\ UNCHANGED <<varsRelay, varsHeadless, varsListen, varsDispatch, varsRegistry, varsConfig, varsOneShot, varsSplit, varsRedact, varsRewrite, varsSessions, varsExtract, varsRace>>
  \/ PollProbe /\ UNCHANGED <<varsRelay, varsHeadless, varsListen, varsDispatch, varsRegistry, varsConfig, varsOneShot, varsSplit, varsRedact, varsRewrite, varsSessions, varsExtract, varsRace>>
  \/ PollFinal /\ UNCHANGED <<varsRelay, varsHeadless, varsListen, varsDispatch, varsRegistry, varsConfig, varsOneShot, varsSplit, varsRedact, varsRewrite, varsSessions, varsExtract, varsRace>>
  \/ ResetSessionMonitor /\ UNCHANGED <<varsRelay, varsHeadless, varsListen, varsDispatch, varsRegistry, varsConfig, varsOneShot, varsSplit, varsRedact, varsRewrite, varsSessions, varsExtract, varsRace>>
  \/ ClearSessionMonitor /\ UNCHANGED <<varsRelay, varsHeadless, varsListen, varsDispatch, varsRegistry, varsConfig, varsOneShot, varsSplit, varsRedact, varsRewrite, varsSessions, varsExtract, varsRace>>
  \/ CommandContinue /\ UNCHANGED <<varsRelay, varsHeadless, varsListen, varsDispatch, varsRegistry, varsConfig, varsOneShot, varsSplit, varsRedact, varsRewrite, varsSessions, varsExtract, varsRace>>
  \/ CommandDelete /\ UNCHANGED <<varsRelay, varsHeadless, varsListen, varsDispatch, varsRegistry, varsConfig, varsOneShot, varsSplit, varsRedact, varsRewrite, varsSessions, varsExtract, varsRace>>
  \/ CommandNew /\ UNCHANGED <<varsRelay, varsHeadless, varsListen, varsDispatch, varsRegistry, varsConfig, varsOneShot, varsSplit, varsRedact, varsRewrite, varsSessions, varsExtract, varsRace>>

\* the listener has just started: no monitor yet, whatever cache file and
\* sessions there are; the other parts of the program stay as they start
InitMirror ==
  /\ pane = <<>> /\ idle \in BOOLEAN /\ live \in BOOLEAN /\ envEvents = 0
  /\ monHeap = [m \in MonIds |-> NewMonitor] /\ monitors = 0
  /\ cacheFile = EmptyCache /\ nextMsgID = 1 /\ mpc = "init"
  /\ pMon = 0 /\ pExists = FALSE /\ pBlocks = <<>>
  /\ apiWrites = <<>> /\ prevPoll = NoPoll /\ curSame = FALSE
  /\ inSuffix = FALSE /\ finalSync = FALSE /\ seeded = {}
  /\ sendFailed = FALSE
  /\ transfers = 0 /\ tHeap = <<>> /\ chans = <<>> /\ muStuck = FALSE
  /\ reqs = <<>> /\ relayEvents = 0 /\ spoiled = FALSE
  /\ dResp = [ua |-> "", method |-> "", code |-> 0]
  /\ busySessions = {} /\ calls = <<>> /\ agents = [n \in SessionNames |-> 0]
  /\ procs = <<>> /\ lockHolder = 0
  /\ updates = <<>> /\ confirmed = 0 /\ lpc = "down" /\ offset = 0
  /\ batch = <<>> /\ cur = 0 /\ goroutines = {} /\ finished = {}
  /\ effects = {} /\ exit = "none" /\ runs = 0
  /\ file = [n \in SessionNames |-> [topic |-> 0, resume |-> 0]]
  /\ objs = <<>> /\ config = 0 /\ hpc = [cmd |-> "none"] /\ turn = <<>>
  /\ cli = [pc |-> "none"] /\ nextTopic = 1 /\ nextUUID = 1
  /\ stored = <<>> /\ regEvents = 0
  /\ cfgFile = <<>> /\ origFile = <<>> /\ loadResult = <<>>
  /\ firstResult = <<>> /\ loadCount = 0 /\ migrations = 0
  /\ jobs = <<>>
  /\ msgText = <<>> /\ parts = <<>> /\ cuts = <<>> /\ split = FALSE
  /\ botToken = <<>> /\ returned = <<>> /\ userText = <<>>
  /\ disk = 0 /\ wpc = <<>> /\ saves = 0 /\ seen = <<>>
  /\ sessions = {} /\ tmuxServer = {} /\ workDirs = {} /\ addressed = {}
  /\ probes = {} /\ lastText = <<>>
  /\ screen = <<>> /\ extracted = <<>> /\ ran = FALSE
  /\ pCache = <<>> /\ clearedAt = 0

SpecMirror == InitMirror /\ [][NextMirror]_vars

(***************************************************************************)
(* Claims about the output mirror.                                         *)
(***************************************************************************)
CreatedPosts == {i \in 1..Len(apiWrites) : apiWrites[i].op = "post" /\ apiWrites[i].ok}

FinalWrites == {i \in 1..Len(apiWrites) : apiWrites[i].final}

\* C1: a sync of a block list that this poll and the previous poll extracted
\* every time creates no chat message (no send has failed before, and the
\* session was not cleared in between); edits are allowed.
C1_NoNewPostInSuffix ==
  (inSuffix /\ ~sendFailed) => CreatedPosts = {}

\* C2: the completion sync of an unchanged, non-empty block list B makes
\* exactly one chat write that carries the completion prefix, and that write
\* is for B's last block.
C2_ExactlyOneCompletion ==
  finalSync =>
    /\ Cardinality(FinalWrites) = 1
    /\ \A i \in FinalWrites :
         apiWrites[i].hash = blockHash(prevPoll.blocks[Len(prevPoll.blocks)])

\* C3: no sync sends a chat message for a hash that initializeMonitors has
\* given the sentinel, as long as the cache is not cleared.
C3_SeededNeverPosted ==
  \A i \in 1..Len(apiWrites) :
    apiWrites[i].op = "post" => apiWrites[i].hash \notin seeded

\* a sync has just written to the chat while a seeded block was on screen,
\* and kept that block in the cache under the sentinel
C3_Witness ==
  /\ apiWrites # <<>>
  /\ \E i \in 1..Len(pane) : blockHash(pane[i]) \in seeded
  /\ \E j \in 1..Len(cacheFile.Blocks) :
       /\ cacheFile.Blocks[j].MsgID = Sentinel
       /\ cacheFile.Blocks[j].Hash \in seeded


\* the session's monitor is missing or not completed
NotCompleted == monitors = 0 \/ ~monHeap[monitors].Completed

\* the chat API calls of the latest step are one bare completion message
BareCompletion ==
  /\ Len(apiWrites) = 1
  /\ apiWrites[1].op = "post" /\ apiWrites[1].final /\ apiWrites[1].text = <<>>

\* C14: a poll that extracts no blocks while the pane is idle and the
\* session is not completed posts one bare completion message.
C14_EmptyTurnCompletion ==
  [][(PollCapture /\ pane = <<>> /\ idle /\ NotCompleted) => BareCompletion']_vars

\* the monitor of the session after a reset, as the claim describes it
ResetPost ==
  /\ monitors # 0
  /\ ~monHeap[monitors].Completed
  /\ monHeap[monitors].StableCount = 0
  /\ monHeap[monitors].LastBlocks = <<>>

\* C15: after ResetSessionMonitor the session's monitor exists with
\* Completed false, StableCount 0 and no LastBlocks, and the block cache is
\* as it was.
C15_ResetPostcondition ==
  [][ResetSessionMonitor => (ResetPost' /\ cacheFile' = cacheFile)]_vars

\* C16: when the dispatch loop has handled /new, /continue or /delete for
\* the session, the session has no monitor in memory and no block cache.
C16_ClearedByCommands ==
  [][(CommandNew \/ CommandContinue \/ CommandDelete)
       => (monitors' = 0 /\ cacheFile' = EmptyCache)]_vars

\* C23: a message the mirror creates for a block is created before the
\* message of every block that stands below it in the pane it synced: in
\* the cache a sync saves, which lists the pane's blocks from top to
\* bottom, no block below a message created by this sync carries an
\* older message.  A block whose text repeats a block above it shares that
\* block's message and is left out.
C23_PaneOrder ==
  [][\A i, j \in 1..Len(cacheFile'.Blocks) :
       (/\ (PollSync \/ PollFinal)
        /\ i < j
        /\ \A k \in 1..(j - 1) : cacheFile'.Blocks[k].Hash # cacheFile'.Blocks[j].Hash
        /\ cacheFile'.Blocks[i].MsgID >= nextMsgID
        /\ cacheFile'.Blocks[j].MsgID > 0)
       => cacheFile'.Blocks[j].MsgID >= cacheFile'.Blocks[i].MsgID]_vars

\* the cache's hash index agrees with the listed block i
Indexed(cache, i) ==
  /\ cache.Blocks[i].Hash \in DOMAIN cache.Hashes
  /\ cache.Hashes[cache.Blocks[i].Hash] = cache.Blocks[i].MsgID

\* C29: in the saved block cache, every listed block whose message id is
\* not the sentinel -1 has its hash in the index, with that message id.
C29_CacheInvariant ==
  \A i \in 1..Len(cacheFile.Blocks) :
    cacheFile.Blocks[i].MsgID # Sentinel => Indexed(cacheFile, i)

\* the same for the listed blocks that carry the id of a chat message
C29_PostedIndexed ==
  \A i \in 1..Len(cacheFile.Blocks) :
    cacheFile.Blocks[i].MsgID > 0 => Indexed(cacheFile, i)

(***************************************************************************)
(* The relay: one registered token, its receivers (GET /d) and senders     *)
(* (POST /stream).  A handler is a record of reqs; its pc says where in    *)
(* its code it stands.                                                     *)
(***************************************************************************)
File == [i \in 1..FileChunks |-> i]

UserAgents == {"TelegramBot (like TwitterBot)", "Mozilla/5.0"}
Methods == {"GET", "HEAD"}

\* strings.Contains(r.UserAgent(), "Telegram")
ContainsTelegram(ua) == ua = "TelegramBot (like TwitterBot)"

NewChan == [buf |-> <<>>, closed |-> FALSE, done |-> FALSE]
NoResp == [ua |-> "", method |-> "", code |-> 0]
Handler(kind, pc, t, ch) ==
  [kind |-> kind, pc |-> pc, t |-> t, ch |-> ch, period |-> ch, pos |-> 0,
   out |-> <<>>]

Ds == {i \in 1..Len(reqs) : reqs[i].kind = "d"}
Ss == {i \in 1..Len(reqs) : reqs[i].kind = "s"}
Budget == relayEvents < MaxRequests
Spend == relayEvents' = relayEvents + 1

\* POST /register: a new struct replaces whatever the token had
Register ==
  /\ Budget /\ Spend
  /\ ~muStuck
  /\ chans' = Append(chans, NewChan)
  /\ tHeap' = Append(tHeap, [Status |-> "waiting", Chan |-> Len(chans) + 1])
  /\ transfers' = Len(tHeap) + 1
  /\ dResp' = NoResp
  /\ UNCHANGED <<muStuck, reqs, spoiled>>

\* what /cancel and the sweeper do to an entry
Remove ==
  /\ ~muStuck
  /\ transfers # 0
  /\ tHeap' = [tHeap EXCEPT ![transfers].Status = "cancelled"]
  /\ chans' = [chans EXCEPT ![tHeap[transfers].Chan].done = TRUE]
  /\ transfers' = 0
  /\ dResp' = NoResp
  /\ spoiled' = TRUE
  /\ UNCHANGED <<muStuck, reqs>>

\* POST /cancel
Cancel == Budget /\ Spend /\ Remove

\* the sweeper, for an entry older than 15 minutes
Sweep == Budget /\ Spend /\ Remove

\* GET /d answered before the transfer is looked at: nothing but the answer
Refuse(ua, method, code) ==
  /\ Budget /\ Spend
  /\ dResp' = [ua |-> ua, method |-> method, code |-> code]
  /\ UNCHANGED <<transfers, tHeap, chans, muStuck, reqs, spoiled>>

\* GET /d past the preview checks: under the lock a waiting transfer becomes
\* ready with fresh channels; a transfer that is ready or streaming is
\* attached to as it is
Download(ua, method) ==
  /\ Budget /\ Spend
  /\ ~muStuck
  /\ LET t == transfers
         exists == t # 0
         fresh == exists /\ tHeap[t].Status = "waiting"
         heap1 == IF fresh
                    THEN [tHeap EXCEPT ![t] = [Status |-> "ready",
                                               Chan |-> Len(chans) + 1]]
                    ELSE tHeap
         code == IF ~exists THEN 404
                 ELSE IF heap1[t].Status \notin {"ready", "streaming"} THEN 409
                 ELSE 200
     IN  /\ tHeap' = heap1
         /\ chans' = IF fresh THEN Append(chans, NewChan) ELSE chans
         /\ dResp' = [ua |-> ua, method |-> method, code |-> code]
         /\ reqs' = IF code = 200
                      THEN Append(reqs, Handler("d", "loop", t, heap1[t].Chan))
                      ELSE reqs
  /\ UNCHANGED <<transfers, muStuck, spoiled>>

\* a faulty variant: the transfer is looked at before the preview checks
DRequestChecksLate ==
  \E ua \in UserAgents, method \in Methods : Download(ua, method)

\* GET or HEAD /d/{token}/{filename}
DRequest ==
  \E ua \in UserAgents, method \in Methods :
    IF ContainsTelegram(ua) THEN Refuse(ua, method, 403)
    ELSE IF method = "HEAD" THEN Refuse(ua, method, 200)
    ELSE Download(ua, method)

\* downloadLoop: a chunk arrives on the channel the select was entered with
DRecv(i) ==
  /\ i \in Ds /\ reqs[i].pc = "loop"
  /\ chans[reqs[i].ch].buf # <<>>
  /\ \E written \in BOOLEAN :
       /\ reqs' = [reqs EXCEPT ![i] =
            IF written
              THEN [@ EXCEPT !.out = Append(@, Head(chans[reqs[i].ch].buf)),
                             !.ch = tHeap[reqs[i].t].Chan]
              ELSE [@ EXCEPT !.pc = "finish"]]
       /\ spoiled' = (spoiled \/ ~written)
       /\ IF written THEN UNCHANGED relayEvents ELSE Budget /\ Spend
  /\ chans' = [chans EXCEPT ![reqs[i].ch].buf = Tail(@)]
  /\ dResp' = NoResp
  /\ UNCHANGED <<transfers, tHeap, muStuck>>

\* downloadLoop: the channel is closed and drained
DClosed(i) ==
  /\ i \in Ds /\ reqs[i].pc = "loop"
  /\ chans[reqs[i].ch].buf = <<>> /\ chans[reqs[i].ch].closed
  /\ reqs' = [reqs EXCEPT ![i].pc = "finish"]
  /\ dResp' = NoResp
  /\ UNCHANGED <<transfers, tHeap, chans, muStuck, relayEvents, spoiled>>

\* downloadLoop: the receiver went away.  (writeErr only chooses the log
\* line after the loop, so it is not kept.)
DDisconnect(i) ==
  /\ i \in Ds /\ reqs[i].pc = "loop"
  /\ Budget /\ Spend
  /\ reqs' = [reqs EXCEPT ![i].pc = "finish"]
  /\ spoiled' = TRUE
  /\ dResp' = NoResp
  /\ UNCHANGED <<transfers, tHeap, chans, muStuck>>

\* after the loop: under the lock, the token's current entry gets its done
\* channel closed and its status set to waiting.  Closing a closed channel
\* panics, and the lock is never released.
DFinish(i) ==
  /\ i \in Ds /\ reqs[i].pc = "finish"
  /\ ~muStuck
  /\ IF transfers = 0
       THEN /\ reqs' = [reqs EXCEPT ![i].pc = "done"]
            /\ UNCHANGED <<tHeap, chans, muStuck>>
       ELSE LET c == tHeap[transfers].Chan
            IN  IF chans[c].done
                  THEN /\ muStuck' = TRUE
                       /\ reqs' = [reqs EXCEPT ![i].pc = "panic"]
                       /\ UNCHANGED <<tHeap, chans>>
                  ELSE /\ chans' = [chans EXCEPT ![c].done = TRUE]
                       /\ tHeap' = [tHeap EXCEPT ![transfers].Status = "waiting"]
                       /\ reqs' = [reqs EXCEPT ![i].pc = "done"]
                       /\ UNCHANGED muStuck
  /\ dResp' = NoResp
  /\ UNCHANGED <<transfers, relayEvents, spoiled>>

\* POST /stream: the entry is looked up under the read lock and its status
\* read after the lock is released; anything but "ready" is answered 400
StreamRequest ==
  /\ Budget /\ Spend
  /\ ~muStuck
  /\ reqs' = IF transfers # 0 /\ tHeap[transfers].Status = "ready"
               THEN Append(reqs, Handler("s", "accepted", transfers,
                                         tHeap[transfers].Chan))
               ELSE reqs
  /\ dResp' = NoResp
  /\ UNCHANGED <<transfers, tHeap, chans, muStuck, spoiled>>

\* t.Status = "streaming", written without the lock
StreamSet(i) ==
  /\ i \in Ss /\ reqs[i].pc = "accepted"
  /\ tHeap' = [tHeap EXCEPT ![reqs[i].t].Status = "streaming"]
  /\ reqs' = [reqs EXCEPT ![i].pc = "read"]
  /\ dResp' = NoResp
  /\ UNCHANGED <<transfers, chans, muStuck, relayEvents, spoiled>>

\* r.Body.Read returns: the next chunk, the end of the body, or an error.
\* With a chunk in hand the select is entered on the channels the struct
\* has at that moment.
StreamRead(i) ==
  /\ i \in Ss /\ reqs[i].pc = "read"
  /\ \E failed \in BOOLEAN :
       /\ failed => reqs[i].pos < FileChunks
       /\ reqs' = [reqs EXCEPT ![i] =
            IF reqs[i].pos < FileChunks /\ ~failed
              THEN [@ EXCEPT !.pos = @ + 1, !.pc = "send",
                             !.ch = tHeap[reqs[i].t].Chan]
              ELSE [@ EXCEPT !.pc = "close"]]
       /\ spoiled' = (spoiled \/ failed)
       /\ IF failed THEN Budget /\ Spend ELSE UNCHANGED relayEvents
  /\ dResp' = NoResp
  /\ UNCHANGED <<transfers, tHeap, chans, muStuck>>

\* the select: the chunk goes into the data channel, or the done channel is
\* closed and the handler returns; sending on a closed channel panics
StreamSend(i) ==
  /\ i \in Ss /\ reqs[i].pc = "send"
  /\ LET c == reqs[i].ch
     IN  \/ /\ ~chans[c].closed /\ Len(chans[c].buf) < DataChanCap
            /\ chans' = [chans EXCEPT ![c].buf = Append(@, File[reqs[i].pos])]
            /\ reqs' = [reqs EXCEPT ![i].pc = "read"]
         \/ /\ chans[c].closed
            /\ reqs' = [reqs EXCEPT ![i].pc = "panic"]
            /\ UNCHANGED chans
         \/ /\ chans[c].done
            /\ reqs' = [reqs EXCEPT ![i].pc = "early"]
            /\ UNCHANGED chans
  /\ dResp' = NoResp
  /\ UNCHANGED <<transfers, tHeap, muStuck, relayEvents, spoiled>>

\* close(t.DataChan), then the receive on t.DoneChan is entered
StreamClose(i) ==
  /\ i \in Ss /\ reqs[i].pc = "close"
  /\ LET c == tHeap[reqs[i].t].Chan
     IN  IF chans[c].closed
           THEN /\ reqs' = [reqs EXCEPT ![i].pc = "panic"]
                /\ UNCHANGED chans
           ELSE /\ chans' = [chans EXCEPT ![c].closed = TRUE]
                /\ reqs' = [reqs EXCEPT ![i].pc = "wait", ![i].ch = c]
  /\ dResp' = NoResp
  /\ UNCHANGED <<transfers, tHeap, muStuck, relayEvents, spoiled>>

\* a faulty variant: the handler returns without waiting for the receiver
StreamWaitReturnsAtOnce(i) ==
  /\ i \in Ss /\ reqs[i].pc = "wait"
  /\ reqs' = [reqs EXCEPT ![i].pc = "done"]
  /\ dResp' = NoResp
  /\ UNCHANGED <<transfers, tHeap, chans, muStuck, relayEvents, spoiled>>

\* <-t.DoneChan
StreamWait(i) ==
  /\ i \in Ss /\ reqs[i].pc = "wait"
  /\ chans[reqs[i].ch].done
  /\ reqs' = [reqs EXCEPT ![i].pc = "done"]
  /\ dResp' = NoResp
  /\ UNCHANGED <<transfers, tHeap, chans, muStuck, relayEvents, spoiled>>

NextRelay ==
  \/ Register /\ UNCHANGED <<varsMirror, varsHeadless, varsListen, varsDispatch, varsRegistry, varsConfig, varsOneShot, varsSplit, varsRedact, varsRewrite, varsSessions, varsExtract, varsRace>>
  \/ Cancel /\ UNCHANGED <<varsMirror, varsHeadless, varsListen, varsDispatch, varsRegistry, varsConfig, varsOneShot, varsSplit, varsRedact, varsRewrite, varsSessions, varsExtract, varsRace>>
  \/ Sweep /\ UNCHANGED <<varsMirror, varsHeadless, varsListen, varsDispatch, varsRegistry, varsConfig, varsOneShot, varsSplit, varsRedact, varsRewrite, varsSessions, varsExtract, varsRace>>
  \/ DRequest /\ UNCHANGED <<varsMirror, varsHeadless, varsListen, varsDispatch, varsRegistry, varsConfig, varsOneShot, varsSplit, varsRedact, varsRewrite, varsSessions, varsExtract, varsRace>>
  \/ \E i \in 1..Len(reqs) : DRecv(i) /\ UNCHANGED <<varsMirror, varsHeadless, varsListen, varsDispatch, varsRegistry, varsConfig, varsOneShot, varsSplit, varsRedact, varsRewrite, varsSessions, varsExtract, varsRace>>
  \/ \E i \in 1..Len(reqs) : DClosed(i) /\ UNCHANGED <<varsMirror, varsHeadless, varsListen, varsDispatch, varsRegistry, varsConfig, varsOneShot, varsSplit, varsRedact, varsRewrite, varsSessions, varsExtract, varsRace>>
  \/ \E i \in 1..Len(reqs) : DDisconnect(i) /\ UNCHANGED <<varsMirror, varsHeadless, varsListen, varsDispatch, varsRegistry, varsConfig, varsOneShot, varsSplit, varsRedact, varsRewrite, varsSessions, varsExtract, varsRace>>
  \/ \E i \in 1..Len(reqs) : DFinish(i) /\ UNCHANGED <<varsMirror, varsHeadless, varsListen, varsDispatch, varsRegistry, varsConfig, varsOneShot, varsSplit, varsRedact, varsRewrite, varsSessions, varsExtract, varsRace>>
  \/ StreamRequest /\ UNCHANGED <<varsMirror, varsHeadless, varsListen, varsDispatch, varsRegistry, varsConfig, varsOneShot, varsSplit, varsRedact, varsRewrite, varsSessions, varsExtract, varsRace>>
  \/ \E i \in 1..Len(reqs) : StreamSet(i) /\ UNCHANGED <<varsMirror, varsHeadless, varsListen, varsDispatch, varsRegistry, varsConfig, varsOneShot, varsSplit, varsRedact, varsRewrite, varsSessions, varsExtract, varsRace>>
  \/ \E i \in 1..Len(reqs) : StreamRead(i) /\ UNCHANGED <<varsMirror, varsHeadless, varsListen, varsDispatch, varsRegistry, varsConfig, varsOneShot, varsSplit, varsRedact, varsRewrite, varsSessions, varsExtract, varsRace>>
  \/ \E i \in 1..Len(reqs) : StreamSend(i) /\ UNCHANGED <<varsMirror, varsHeadless, varsListen, varsDispatch, varsRegistry, varsConfig, varsOneShot, varsSplit, varsRedact, varsRewrite, varsSessions, varsExtract, varsRace>>
  \/ \E i \in 1..Len(reqs) : StreamClose(i) /\ UNCHANGED <<varsMirror, varsHeadless, varsListen, varsDispatch, varsRegistry, varsConfig, varsOneShot, varsSplit, varsRedact, varsRewrite, varsSessions, varsExtract, varsRace>>
  \/ \E i \in 1..Len(reqs) : StreamWait(i) /\ UNCHANGED <<varsMirror, varsHeadless, varsListen, varsDispatch, varsRegistry, varsConfig, varsOneShot, varsSplit, varsRedact, varsRewrite, varsSessions, varsExtract, varsRace>>

\* the relay server has just started: no transfer
InitRelay ==
  /\ transfers = 0 /\ tHeap = <<>> /\ chans = <<>> /\ muStuck = FALSE
  /\ reqs = <<>> /\ relayEvents = 0 /\ spoiled = FALSE
  /\ dResp = [ua |-> "", method |-> "", code |-> 0]
  /\ pane = <<>> /\ idle = FALSE /\ live = FALSE /\ envEvents = 0
  /\ monHeap = [m \in MonIds |-> NewMonitor] /\ monitors = 0
  /\ cacheFile = EmptyCache /\ nextMsgID = 1 /\ mpc = "init"
  /\ pMon = 0 /\ pExists = FALSE /\ pBlocks = <<>>
  /\ apiWrites = <<>> /\ prevPoll = NoPoll /\ curSame = FALSE
  /\ inSuffix = FALSE /\ finalSync = FALSE /\ seeded = {}
  /\ sendFailed = FALSE
  /\ busySessions = {} /\ calls = <<>> /\ agents = [n \in SessionNames |-> 0]
  /\ procs = <<>> /\ lockHolder = 0
  /\ updates = <<>> /\ confirmed = 0 /\ lpc = "down" /\ offset = 0
  /\ batch = <<>> /\ cur = 0 /\ goroutines = {} /\ finished = {}
  /\ effects = {} /\ exit = "none" /\ runs = 0
  /\ file = [n \in SessionNames |-> [topic |-> 0, resume |-> 0]]
  /\ objs = <<>> /\ config = 0 /\ hpc = [cmd |-> "none"] /\ turn = <<>>
  /\ cli = [pc |-> "none"] /\ nextTopic = 1 /\ nextUUID = 1
  /\ stored = <<>> /\ regEvents = 0
  /\ cfgFile = <<>> /\ origFile = <<>> /\ loadResult = <<>>
  /\ firstResult = <<>> /\ loadCount = 0 /\ migrations = 0
  /\ jobs = <<>>
  /\ msgText = <<>> /\ parts = <<>> /\ cuts = <<>> /\ split = FALSE
  /\ botToken = <<>> /\ returned = <<>> /\ userText = <<>>
  /\ disk = 0 /\ wpc = <<>> /\ saves = 0 /\ seen = <<>>
  /\ sessions = {} /\ tmuxServer = {} /\ workDirs = {} /\ addressed = {}
  /\ probes = {} /\ lastText = <<>>
  /\ screen = <<>> /\ extracted = <<>> /\ ran = FALSE
  /\ pCache = <<>> /\ clearedAt = 0

SpecRelay == InitRelay /\ [][NextRelay]_vars

(***************************************************************************)
(* The relay's claims.                                                     *)
(***************************************************************************)
IsStatusOf(a, st) == a # 0 /\ tHeap[a].Status = st

\* the chunks a /stream handler has put into a data channel
Enqueued(i) ==
  SubSeq(File, 1, IF reqs[i].pc = "send" THEN reqs[i].pos - 1 ELSE reqs[i].pos)

\* one registration, at most one receiver and one sender, and no cancel,
\* sweep, disconnect or i/o failure
Undisturbed ==
  /\ ~spoiled
  /\ Len(tHeap) = 1
  /\ Cardinality(Ds) <= 1
  /\ Cardinality(Ss) <= 1

\* C5: for a registered transfer with one receiver GET /d, one sender
\* POST /stream and no cancel or disconnect, the chunks written to the
\* receiver are the chunks read from the sender, in order, none lost or
\* doubled; the data channel is closed only after every chunk is enqueued,
\* and the sender's handler returns only after the receiver has consumed
\* all of them and closed the done channel.
C5_PassThrough ==
  Undisturbed =>
    \A d \in Ds :
      LET c == reqs[d].ch
      IN  /\ reqs[d].pc # "panic"
          /\ Ss = {} => reqs[d].out = <<>> /\ ~chans[c].closed
          /\ \A i \in Ss :
               /\ reqs[i].pc \notin {"early", "panic"}
               /\ reqs[d].out \o chans[c].buf = Enqueued(i)
               /\ chans[c].closed => Enqueued(i) = File
               /\ reqs[i].pc = "done" =>
                    /\ reqs[d].out = File
                    /\ reqs[d].pc = "done"
                    /\ chans[c].done

C5_Witness ==
  /\ Undisturbed
  /\ \E d \in Ds, i \in Ss :
       reqs[i].pc = "done" /\ reqs[d].pc = "done" /\ reqs[d].out = File

AllowedChanges ==
  { <<"waiting", "ready">>, <<"ready", "streaming">>,
    <<"streaming", "waiting">>, <<"ready", "waiting">> }

\* C6: every change of a transfer's status is waiting->ready,
\* ready->streaming, streaming->waiting, or a change to cancelled that
\* removes the entry in the same step; nothing leaves cancelled.  (The
\* list is read generously: ready->waiting, a receiver that leaves before
\* the sender starts, is let through as well.)
C6_StatusTransitions ==
  [][\A a \in 1..Len(tHeap) :
       LET x == tHeap[a].Status
           y == tHeap'[a].Status
       IN  x # y =>
             \/ <<x, y>> \in AllowedChanges
             \/ y = "cancelled" /\ transfers = a /\ transfers' # a]_vars

\* C7: a POST /stream is accepted only when the transfer is ready, and
\* among the /stream requests for a token at most one is accepted per
\* ready period (a ready period is named by the channels its GET /d made).
C7_OneSenderPerReadyPeriod ==
  \A i \in Ss, j \in Ss : i # j => reqs[i].period # reqs[j].period

DownloadEnded == \E d \in Ds : reqs[d].pc \in {"done", "panic"}
DownloadRunning == \E d \in Ds : reqs[d].pc \in {"loop", "finish"}

\* C8: once a download attempt has ended and none is running, a transfer
\* that is still registered is waiting again, and the next GET /d can take
\* it to ready (the lock it needs is free).
C8_LinkReusable ==
  (transfers # 0 /\ DownloadEnded /\ ~DownloadRunning) =>
    IsStatusOf(transfers, "waiting") /\ ~muStuck

IsPreview(r) == r.code # 0 /\ (ContainsTelegram(r.ua) \/ r.method = "HEAD")

\* C9: a GET /d whose User-Agent contains "Telegram" is answered 403, a
\* HEAD /d is answered 200, and neither changes a transfer's status or
\* channels, nor starts a download.
C9_PreviewRejected ==
  [][IsPreview(dResp') =>
       /\ dResp'.code = IF ContainsTelegram(dResp'.ua) THEN 403 ELSE 200
       /\ UNCHANGED <<transfers, tHeap, chans, reqs, muStuck>>]_vars

C9_Witness ==
  /\ IsPreview(dResp)
  /\ IsStatusOf(transfers, "waiting")

(***************************************************************************)
(* The headless listener: every prompt for a session is handled in a       *)
(* goroutine of its own that calls handleHeadlessPrompt.                   *)
(***************************************************************************)
\* the sessions of the configuration all have a topic of the group
HeadlessConfig ==
  [GroupID |-> 7, Sessions |-> [n \in SessionNames |-> [TopicID |-> 11]]]

\* config.GroupID != 0 && sessionInfo.TopicID != 0
HasTopic(name) ==
  HeadlessConfig.GroupID # 0 /\ HeadlessConfig.Sessions[name].TopicID # 0

\* a faulty variant: the latch never finds the key
LoadOrStoreNeverLoaded(m, name) == [loaded |-> FALSE, m |-> m \cup {name}]

\* busySessions.LoadOrStore(sessName, true), as one atomic step
LoadOrStore(m, name) == [loaded |-> name \in m, m |-> m \cup {name}]

Holding == {"holding", "running", "reporting"}

\* the dispatch loop starts a goroutine for a prompt
Dispatch ==
  /\ Len(calls) < MaxPrompts
  /\ \E name \in SessionNames :
       calls' = Append(calls, [name |-> name, pc |-> "spawned", lost |-> FALSE,
                               acked |-> FALSE, ran |-> FALSE])
  /\ UNCHANGED <<busySessions, agents>>

\* handleHeadlessPrompt's first lines: the latch, and for the loser the
\* busy notice and the return
Enter(i) ==
  /\ calls[i].pc = "spawned"
  /\ LET r == LoadOrStore(busySessions, calls[i].name)
     IN  /\ busySessions' = r.m
         /\ calls' = [calls EXCEPT ![i] =
              IF r.loaded
                THEN [@ EXCEPT !.pc = "returned", !.lost = TRUE,
                               !.acked = HasTopic(calls[i].name)]
                ELSE [@ EXCEPT !.pc = "holding"]]
  /\ UNCHANGED agents

\* runClaudeHeadless: the agent is started, unless its binary or a fresh
\* session id is missing
RunAgent(i) ==
  /\ calls[i].pc = "holding"
  /\ \E started \in BOOLEAN :
       IF started
         THEN /\ calls' = [calls EXCEPT ![i].pc = "running", ![i].ran = TRUE]
              /\ agents' = [agents EXCEPT ![calls[i].name] = @ + 1]
         ELSE /\ calls' = [calls EXCEPT ![i].pc = "reporting"]
              /\ UNCHANGED agents
  /\ UNCHANGED busySessions

\* cmd.Run returns: the agent ended, or the 10 minute context killed it
AgentExit(i) ==
  /\ calls[i].pc = "running"
  /\ calls' = [calls EXCEPT ![i].pc = "reporting"]
  /\ agents' = [agents EXCEPT ![calls[i].name] = @ - 1]
  /\ UNCHANGED busySessions

\* a faulty variant: the function returns and the latch is not deleted
ReportKeepsLatch(i) ==
  /\ calls[i].pc = "reporting"
  /\ calls' = [calls EXCEPT ![i].pc = "returned"]
  /\ UNCHANGED <<busySessions, agents>>

\* the result is sent, the function returns and its deferred Delete runs
Report(i) ==
  /\ calls[i].pc = "reporting"
  /\ calls' = [calls EXCEPT ![i].pc = "returned"]
  /\ busySessions' = busySessions \ {calls[i].name}
  /\ UNCHANGED agents

\* a panic outside cmd.Run: the deferred Delete runs, the caller recovers
Panics(i) ==
  /\ calls[i].pc \in {"holding", "reporting"}
  /\ calls' = [calls EXCEPT ![i].pc = "returned"]
  /\ busySessions' = busySessions \ {calls[i].name}
  /\ UNCHANGED agents

NextHeadless ==
  \/ Dispatch /\ UNCHANGED <<varsMirror, varsRelay, varsListen, varsDispatch, varsRegistry, varsConfig, varsOneShot, varsSplit, varsRedact, varsRewrite, varsSessions, varsExtract, varsRace>>
  \/ \E i \in 1..Len(calls) : Enter(i) /\ UNCHANGED <<varsMirror, varsRelay, varsListen, varsDispatch, varsRegistry, varsConfig, varsOneShot, varsSplit, varsRedact, varsRewrite, varsSessions, varsExtract, varsRace>>
  \/ \E i \in 1..Len(calls) : RunAgent(i) /\ UNCHANGED <<varsMirror, varsRelay, varsListen, varsDispatch, varsRegistry, varsConfig, varsOneShot, varsSplit, varsRedact, varsRewrite, varsSessions, varsExtract, varsRace>>
  \/ \E i \in 1..Len(calls) : AgentExit(i) /\ UNCHANGED <<varsMirror, varsRelay, varsListen, varsDispatch, varsRegistry, varsConfig, varsOneShot, varsSplit, varsRedact, varsRewrite, varsSessions, varsExtract, varsRace>>
  \/ \E i \in 1..Len(calls) : Report(i) /\ UNCHANGED <<varsMirror, varsRelay, varsListen, varsDispatch, varsRegistry, varsConfig, varsOneShot, varsSplit, varsRedact, varsRewrite, varsSessions, varsExtract, varsRace>>
  \/ \E i \in 1..Len(calls) : Panics(i) /\ UNCHANGED <<varsMirror, varsRelay, varsListen, varsDispatch, varsRegistry, varsConfig, varsOneShot, varsSplit, varsRedact, varsRewrite, varsSessions, varsExtract, varsRace>>

\* the headless listener has just started: no prompt in hand
InitHeadless ==
  /\ busySessions = {} /\ calls = <<>> /\ agents = [n \in SessionNames |-> 0]
  /\ pane = <<>> /\ idle = FALSE /\ live = FALSE /\ envEvents = 0
  /\ monHeap = [m \in MonIds |-> NewMonitor] /\ monitors = 0
  /\ cacheFile = EmptyCache /\ nextMsgID = 1 /\ mpc = "init"
  /\ pMon = 0 /\ pExists = FALSE /\ pBlocks = <<>>
  /\ apiWrites = <<>> /\ prevPoll = NoPoll /\ curSame = FALSE
  /\ inSuffix = FALSE /\ finalSync = FALSE /\ seeded = {}
  /\ sendFailed = FALSE
  /\ transfers = 0 /\ tHeap = <<>> /\ chans = <<>> /\ muStuck = FALSE
  /\ reqs = <<>> /\ relayEvents = 0 /\ spoiled = FALSE
  /\ dResp = [ua |-> "", method |-> "", code |-> 0]
  /\ procs = <<>> /\ lockHolder = 0
  /\ updates = <<>> /\ confirmed = 0 /\ lpc = "down" /\ offset = 0
  /\ batch = <<>> /\ cur = 0 /\ goroutines = {} /\ finished = {}
  /\ effects = {} /\ exit = "none" /\ runs = 0
  /\ file = [n \in SessionNames |-> [topic |-> 0, resume |-> 0]]
  /\ objs = <<>> /\ config = 0 /\ hpc = [cmd |-> "none"] /\ turn = <<>>
  /\ cli = [pc |-> "none"] /\ nextTopic = 1 /\ nextUUID = 1
  /\ stored = <<>> /\ regEvents = 0
  /\ cfgFile = <<>> /\ origFile = <<>> /\ loadResult = <<>>
  /\ firstResult = <<>> /\ loadCount = 0 /\ migrations = 0
  /\ jobs = <<>>
  /\ msgText = <<>> /\ parts = <<>> /\ cuts = <<>> /\ split = FALSE
  /\ botToken = <<>> /\ returned = <<>> /\ userText = <<>>
  /\ disk = 0 /\ wpc = <<>> /\ saves = 0 /\ seen = <<>>
  /\ sessions = {} /\ tmuxServer = {} /\ workDirs = {} /\ addressed = {}
  /\ probes = {} /\ lastText = <<>>
  /\ screen = <<>> /\ extracted = <<>> /\ ran = FALSE
  /\ pCache = <<>> /\ clearedAt = 0

SpecHeadless == InitHeadless /\ [][NextHeadless]_vars

CallsOf(name) == {i \in 1..Len(calls) : calls[i].name = name}

HeadlessStep ==
  \E i \in 1..Len(calls) :
    Enter(i) \/ RunAgent(i) \/ AgentExit(i) \/ Report(i)

SpecHeadlessFair == SpecHeadless /\ WF_varsHeadless(HeadlessStep)

\* the call acquired the latch and has returned
Ended(i) == calls[i].pc = "returned" /\ ~calls[i].lost

\* C38: a session name stored in busySessions by handleHeadlessPrompt is
\* eventually deleted from it, whether the agent ended normally or with an
\* error, was killed at the deadline, or the handler panicked.
C38_LatchReleased ==
  \A name \in SessionNames :
    (name \in busySessions) ~> (name \notin busySessions)

\* C38: a session name is in busySessions exactly while one of its calls
\* is between the LoadOrStore that stored it and its return.
C38_LatchOnlyWhileHeld ==
  \A name \in SessionNames :
    (name \in busySessions) <=>
      (\E i \in CallsOf(name) : calls[i].pc \in Holding)

\* a prompt is accepted for a session after an earlier invocation that ran
\* the agent for it has ended
C38_Witness ==
  \E i, j \in 1..Len(calls) :
    /\ i < j /\ calls[i].name = calls[j].name
    /\ Ended(i) /\ calls[i].ran
    /\ calls[j].pc = "running" /\ ~calls[j].lost

(***************************************************************************)
(* "ccc listen": processes that contend for the lock on ~/.ccc.lock.       *)
(***************************************************************************)
NewProc ==
  [pc |-> "start", refused |-> FALSE, commands |-> FALSE, monitor |-> FALSE,
   polled |-> FALSE, code |-> -1]

\* a faulty variant: the flock's failure is not looked at
FlockAlwaysGranted(holder, p) == [ok |-> TRUE, holder |-> p]

\* syscall.Flock(fd, LOCK_EX|LOCK_NB): granted iff no other open file
\* holds the lock
Flock(holder, p) ==
  [ok |-> holder \in {0, p}, holder |-> IF holder = 0 THEN p ELSE holder]

\* the process ends: its files are closed, which drops a lock it holds
Exit(p, code) ==
  /\ procs' = [procs EXCEPT ![p].pc = "exited", ![p].code = code]
  /\ lockHolder' = IF lockHolder = p THEN 0 ELSE lockHolder

\* a service manager or a user starts "ccc listen"
Launch ==
  /\ Len(procs) < MaxProcs
  /\ procs' = Append(procs, NewProc)
  /\ UNCHANGED lockHolder

\* listen: the sleep and os.OpenFile of the lock file; an error is returned
OpenLockFile(p) ==
  /\ procs[p].pc = "start"
  /\ \E opened \in BOOLEAN :
       IF opened
         THEN procs' = [procs EXCEPT ![p].pc = "opened"] /\ UNCHANGED lockHolder
         ELSE Exit(p, 1)

\* listen: the non-blocking flock; on failure os.Exit(0)
TryLock(p) ==
  /\ procs[p].pc = "opened"
  /\ LET r == Flock(lockHolder, p)
     IN  IF r.ok
           THEN /\ lockHolder' = r.holder
                /\ procs' = [procs EXCEPT ![p].pc = "locked"]
           ELSE /\ procs' = [procs EXCEPT ![p].pc = "exited", ![p].code = 0,
                                          ![p].refused = TRUE]
                /\ UNCHANGED lockHolder

\* listen: loadConfig; an error is returned and the deferred unlock runs
LoadConfig(p) ==
  /\ procs[p].pc = "locked"
  /\ \E loaded \in BOOLEAN :
       IF loaded
         THEN procs' = [procs EXCEPT ![p].pc = "configured"] /\ UNCHANGED lockHolder
         ELSE Exit(p, 1)

\* listen: setBotCommands
SetBotCommands(p) ==
  /\ procs[p].pc = "configured"
  /\ procs' = [procs EXCEPT ![p].pc = "commands", ![p].commands = TRUE]
  /\ UNCHANGED lockHolder

\* listen: go startSessionMonitor(config), and on to the dispatch loop
StartMonitor(p) ==
  /\ procs[p].pc = "commands"
  /\ procs' = [procs EXCEPT ![p].pc = "loop", ![p].monitor = TRUE]
  /\ UNCHANGED lockHolder

\* the dispatch loop: getUpdates
Poll(p) ==
  /\ procs[p].pc \in {"loop", "reexec"}
  /\ procs' = [procs EXCEPT ![p].polled = TRUE]
  /\ UNCHANGED lockHolder

\* /restart: the goroutine starts a new "ccc listen" ...
Reexec(p) ==
  /\ procs[p].pc = "loop"
  /\ Len(procs) < MaxProcs
  /\ procs' = Append([procs EXCEPT ![p].pc = "reexec"], NewProc)
  /\ UNCHANGED lockHolder

\* ... and then calls os.Exit(0)
ExitAfterReexec(p) ==
  /\ procs[p].pc = "reexec"
  /\ Exit(p, 0)

\* SIGINT or SIGTERM: os.Exit(0)
Signal(p) ==
  /\ procs[p].pc \in {"loop", "reexec"}
  /\ Exit(p, 0)

NextListen ==
  \/ Launch /\ UNCHANGED <<varsMirror, varsRelay, varsHeadless, varsDispatch, varsRegistry, varsConfig, varsOneShot, varsSplit, varsRedact, varsRewrite, varsSessions, varsExtract, varsRace>>
  \/ \E p \in 1..Len(procs) : OpenLockFile(p) /\ UNCHANGED <<varsMirror, varsRelay, varsHeadless, varsDispatch, varsRegistry, varsConfig, varsOneShot, varsSplit, varsRedact, varsRewrite, varsSessions, varsExtract, varsRace>>
  \/ \E p \in 1..Len(procs) : TryLock(p) /\ UNCHANGED <<varsMirror, varsRelay, varsHeadless, varsDispatch, varsRegistry, varsConfig, varsOneShot, varsSplit, varsRedact, varsRewrite, varsSessions, varsExtract, varsRace>>
  \/ \E p \in 1..Len(procs) : LoadConfig(p) /\ UNCHANGED <<varsMirror, varsRelay, varsHeadless, varsDispatch, varsRegistry, varsConfig, varsOneShot, varsSplit, varsRedact, varsRewrite, varsSessions, varsExtract, varsRace>>
  \/ \E p \in 1..Len(procs) : SetBotCommands(p) /\ UNCHANGED <<varsMirror, varsRelay, varsHeadless, varsDispatch, varsRegistry, varsConfig, varsOneShot, varsSplit, varsRedact, varsRewrite, varsSessions, varsExtract, varsRace>>
  \/ \E p \in 1..Len(procs) : StartMonitor(p) /\ UNCHANGED <<varsMirror, varsRelay, varsHeadless, varsDispatch, varsRegistry, varsConfig, varsOneShot, varsSplit, varsRedact, varsRewrite, varsSessions, varsExtract, varsRace>>
  \/ \E p \in 1..Len(procs) : Poll(p) /\ UNCHANGED <<varsMirror, varsRelay, varsHeadless, varsDispatch, varsRegistry, varsConfig, varsOneShot, varsSplit, varsRedact, varsRewrite, varsSessions, varsExtract, varsRace>>
  \/ \E p \in 1..Len(procs) : Reexec(p) /\ UNCHANGED <<varsMirror, varsRelay, varsHeadless, varsDispatch, varsRegistry, varsConfig, varsOneShot, varsSplit, varsRedact, varsRewrite, varsSessions, varsExtract, varsRace>>
  \/ \E p \in 1..Len(procs) : ExitAfterReexec(p) /\ UNCHANGED <<varsMirror, varsRelay, varsHeadless, varsDispatch, varsRegistry, varsConfig, varsOneShot, varsSplit, varsRedact, varsRewrite, varsSessions, varsExtract, varsRace>>
  \/ \E p \in 1..Len(procs) : Signal(p) /\ UNCHANGED <<varsMirror, varsRelay, varsHeadless, varsDispatch, varsRegistry, varsConfig, varsOneShot, varsSplit, varsRedact, varsRewrite, varsSessions, varsExtract, varsRace>>

\* no "ccc listen" process yet, the lock file unlocked
InitListen ==
  /\ procs = <<>> /\ lockHolder = 0
  /\ pane = <<>> /\ idle = FALSE /\ live = FALSE /\ envEvents = 0
  /\ monHeap = [m \in MonIds |-> NewMonitor] /\ monitors = 0
  /\ cacheFile = EmptyCache /\ nextMsgID = 1 /\ mpc = "init"
  /\ pMon = 0 /\ pExists = FALSE /\ pBlocks = <<>>
  /\ apiWrites = <<>> /\ prevPoll = NoPoll /\ curSame = FALSE
  /\ inSuffix = FALSE /\ finalSync = FALSE /\ seeded = {}
  /\ sendFailed = FALSE
  /\ transfers = 0 /\ tHeap = <<>> /\ chans = <<>> /\ muStuck = FALSE
  /\ reqs = <<>> /\ relayEvents = 0 /\ spoiled = FALSE
  /\ dResp = [ua |-> "", method |-> "", code |-> 0]
  /\ busySessions = {} /\ calls = <<>> /\ agents = [n \in SessionNames |-> 0]
  /\ updates = <<>> /\ confirmed = 0 /\ lpc = "down" /\ offset = 0
  /\ batch = <<>> /\ cur = 0 /\ goroutines = {} /\ finished = {}
  /\ effects = {} /\ exit = "none" /\ runs = 0
  /\ file = [n \in SessionNames |-> [topic |-> 0, resume |-> 0]]
  /\ objs = <<>> /\ config = 0 /\ hpc = [cmd |-> "none"] /\ turn = <<>>
  /\ cli = [pc |-> "none"] /\ nextTopic = 1 /\ nextUUID = 1
  /\ stored = <<>> /\ regEvents = 0
  /\ cfgFile = <<>> /\ origFile = <<>> /\ loadResult = <<>>
  /\ firstResult = <<>> /\ loadCount = 0 /\ migrations = 0
  /\ jobs = <<>>
  /\ msgText = <<>> /\ parts = <<>> /\ cuts = <<>> /\ split = FALSE
  /\ botToken = <<>> /\ returned = <<>> /\ userText = <<>>
  /\ disk = 0 /\ wpc = <<>> /\ saves = 0 /\ seen = <<>>
  /\ sessions = {} /\ tmuxServer = {} /\ workDirs = {} /\ addressed = {}
  /\ probes = {} /\ lastText = <<>>
  /\ screen = <<>> /\ extracted = <<>> /\ ran = FALSE
  /\ pCache = <<>> /\ clearedAt = 0

SpecListen == InitListen /\ [][NextListen]_vars

PastLock == {"locked", "configured", "commands", "loop", "reexec"}

\* C10: at any time at most one process is past the lock (and so in the
\* dispatch loop), and it is the lock's holder; a process whose flock
\* failed has exited with status 0 and has neither polled the chat API,
\* nor registered bot commands, nor started the output mirror.
C10_SingleListener ==
  /\ \A p, q \in 1..Len(procs) :
       procs[p].pc \in PastLock /\ procs[q].pc \in PastLock => p = q
  /\ \A p \in 1..Len(procs) :
       /\ procs[p].pc \in PastLock => lockHolder = p
       /\ procs[p].polled => lockHolder = p \/ procs[p].pc = "exited"
       /\ procs[p].refused =>
            /\ procs[p].pc = "exited" /\ procs[p].code = 0
            /\ ~procs[p].polled /\ ~procs[p].commands /\ ~procs[p].monitor

C10_Witness ==
  \E p, q \in 1..Len(procs) :
    /\ procs[p].pc = "loop" /\ procs[p].polled
    /\ procs[q].refused

(***************************************************************************)
(* commands.go: the dispatch loop.  The platform numbers the updates it    *)
(* receives 1, 2, ...; getUpdates?offset=n confirms (drops) the updates    *)
(* below n and returns the others.  A handler's doings are recorded in     *)
(* effects under the id of its update.                                     *)
(***************************************************************************)
Senders == {"owner", "stranger"}

UpdateKinds == {"callback", "topic", "private", "update"}

Later(a, b) == IF a > b THEN a ELSE b

\* the ids from..to, in order
Ids(from, to) == [i \in 1..(to - from + 1) |-> from + i - 1]

Effect(id, what) == [id |-> id, what |-> what]

\* the events of the loop's environment so far
LoopEvents == Len(updates) + runs

\* a faulty variant of Authorized: everybody is let in
AuthorizedAnyone(from) == TRUE

\* lines 651 and 703: the sender is config.ChatID
Authorized(from) == from = "owner"

\* somebody sends the bot a message or presses a button
UserSends ==
  /\ LoopEvents < MaxLoopEvents
  /\ \E from \in Senders, kind \in UpdateKinds :
       updates' = Append(updates, [from |-> from, kind |-> kind])
  /\ UNCHANGED <<confirmed, lpc, offset, batch, cur, goroutines, finished,
                 effects, exit, runs>>

\* the process gets to the loop: offset := 0
StartLoop ==
  /\ lpc = "down"
  /\ LoopEvents < MaxLoopEvents
  /\ runs' = runs + 1
  /\ lpc' = "fetch"
  /\ offset' = 0 /\ batch' = <<>> /\ cur' = 0 /\ goroutines' = {}
  /\ exit' = "none"
  /\ UNCHANGED <<updates, confirmed, finished, effects>>

\* lines 619-642: getUpdates with the offset; the platform confirms what is
\* below it; the answer may be lost or unusable, and the loop asks again
GetUpdates ==
  /\ lpc = "fetch"
  /\ confirmed' = Later(confirmed, offset)
  /\ \E answered \in BOOLEAN :
       LET result == IF answered
                     THEN Ids(Later(confirmed', 1), Len(updates))
                     ELSE <<>>
       IN /\ batch' = result
          /\ lpc' = IF result = <<>> THEN "fetch" ELSE "batch"
  /\ UNCHANGED <<updates, offset, cur, goroutines, finished, effects, exit, runs>>

\* lines 644-645: the next update of the batch is taken
TakeUpdate ==
  /\ lpc = "batch"
  /\ cur' = Head(batch)
  /\ batch' = Tail(batch)
  /\ offset' = Head(batch) + 1
  /\ lpc' = "handle"
  /\ UNCHANGED <<updates, confirmed, goroutines, finished, effects, exit, runs>>

\* `continue`: on to the next update, or to the next getUpdates
Continue ==
  /\ lpc' = IF batch = <<>> THEN "fetch" ELSE "batch"
  /\ cur' = 0
  /\ finished' = finished \cup {cur}
  /\ UNCHANGED <<updates, confirmed, offset, batch, exit, runs>>

\* the process ends
Die(why) ==
  /\ lpc' = "down"
  /\ exit' = why
  /\ cur' = 0 /\ batch' = <<>> /\ goroutines' = {}
  /\ UNCHANGED <<updates, offset, runs>>

\* lines 651-653 and 703-705: an update of somebody else is skipped
Drop ==
  /\ lpc = "handle"
  /\ ~Authorized(updates[cur].from)
  /\ Continue
  /\ UNCHANGED <<goroutines, effects>>

\* lines 647-696: a button press
HandleCallback ==
  /\ lpc = "handle"
  /\ updates[cur].kind = "callback"
  /\ Authorized(updates[cur].from)
  /\ \E wellFormed \in BOOLEAN, tmux \in BOOLEAN :
       effects' = effects \cup {Effect(cur, "answer")}
                    \cup (IF wellFormed THEN {Effect(cur, "chat")} ELSE {})
                    \cup (IF wellFormed /\ tmux THEN {Effect(cur, "keys")} ELSE {})
  /\ Continue
  /\ UNCHANGED goroutines

\* lines 1050-1080: text in a topic; loadConfig's error is dropped, and a
\* nil config makes getSessionByTopic panic in the loop's own goroutine
HandleTopic ==
  /\ lpc = "handle"
  /\ updates[cur].kind = "topic"
  /\ Authorized(updates[cur].from)
  /\ \E loaded \in BOOLEAN, mapped \in BOOLEAN, sent \in BOOLEAN :
       IF ~loaded
       THEN /\ Die("panic")
            /\ UNCHANGED <<confirmed, finished, effects>>
       ELSE /\ effects' = effects \cup
                 (IF mapped
                  THEN {Effect(cur, "monitor"), Effect(cur, "keys")}
                         \cup (IF sent THEN {} ELSE {Effect(cur, "chat")})
                  ELSE {Effect(cur, "chat")})
            /\ Continue
            /\ UNCHANGED goroutines

\* lines 1083-1116: text in the private chat; the agent runs in a goroutine
HandlePrivate ==
  /\ lpc = "handle"
  /\ updates[cur].kind = "private"
  /\ Authorized(updates[cur].from)
  /\ effects' = effects \cup {Effect(cur, "chat")}
  /\ goroutines' = goroutines \cup {cur}
  /\ lpc' = IF batch = <<>> THEN "fetch" ELSE "batch"
  /\ cur' = 0
  /\ UNCHANGED <<updates, confirmed, offset, batch, finished, exit, runs>>

\* lines 1100-1116: the goroutine; a panic is recovered and reported
AgentDone ==
  /\ lpc # "down"
  /\ \E id \in goroutines, outcome \in {"output", "error", "panic"} :
       /\ goroutines' = goroutines \ {id}
       /\ finished' = finished \cup {id}
       /\ effects' = effects \cup
            {Effect(id, "agent"),
             Effect(id, IF outcome = "panic" THEN "panic report" ELSE "chat")}
  /\ UNCHANGED <<updates, confirmed, lpc, offset, batch, cur, exit, runs>>

\* line 828 and updateCCC: /update; on success the offset is confirmed
\* and the process exits
HandleUpdate ==
  /\ lpc = "handle"
  /\ updates[cur].kind = "update"
  /\ Authorized(updates[cur].from)
  /\ effects' = effects \cup {Effect(cur, "chat")}
  /\ \E updated \in BOOLEAN :
       IF updated
       THEN /\ confirmed' = Later(confirmed, offset)
            /\ finished' = finished \cup {cur}
            /\ Die("update")
       ELSE /\ Continue
            /\ UNCHANGED goroutines

\* lines 613-617: SIGINT or SIGTERM, at any point of the loop
Stop ==
  /\ lpc # "down"
  /\ Die("signal")
  /\ UNCHANGED <<confirmed, finished, effects>>

NextDispatch ==
  \/ UserSends /\ UNCHANGED <<varsMirror, varsRelay, varsHeadless, varsListen, varsRegistry, varsConfig, varsOneShot, varsSplit, varsRedact, varsRewrite, varsSessions, varsExtract, varsRace>>
  \/ StartLoop /\ UNCHANGED <<varsMirror, varsRelay, varsHeadless, varsListen, varsRegistry, varsConfig, varsOneShot, varsSplit, varsRedact, varsRewrite, varsSessions, varsExtract, varsRace>>
  \/ GetUpdates /\ UNCHANGED <<varsMirror, varsRelay, varsHeadless, varsListen, varsRegistry, varsConfig, varsOneShot, varsSplit, varsRedact, varsRewrite, varsSessions, varsExtract, varsRace>>
  \/ TakeUpdate /\ UNCHANGED <<varsMirror, varsRelay, varsHeadless, varsListen, varsRegistry, varsConfig, varsOneShot, varsSplit, varsRedact, varsRewrite, varsSessions, varsExtract, varsRace>>
  \/ Drop /\ UNCHANGED <<varsMirror, varsRelay, varsHeadless, varsListen, varsRegistry, varsConfig, varsOneShot, varsSplit, varsRedact, varsRewrite, varsSessions, varsExtract, varsRace>>
  \/ HandleCallback /\ UNCHANGED <<varsMirror, varsRelay, varsHeadless, varsListen, varsRegistry, varsConfig, varsOneShot, varsSplit, varsRedact, varsRewrite, varsSessions, varsExtract, varsRace>>
  \/ HandleTopic /\ UNCHANGED <<varsMirror, varsRelay, varsHeadless, varsListen, varsRegistry, varsConfig, varsOneShot, varsSplit, varsRedact, varsRewrite, varsSessions, varsExtract, varsRace>>
  \/ HandlePrivate /\ UNCHANGED <<varsMirror, varsRelay, varsHeadless, varsListen, varsRegistry, varsConfig, varsOneShot, varsSplit, varsRedact, varsRewrite, varsSessions, varsExtract, varsRace>>
  \/ AgentDone /\ UNCHANGED <<varsMirror, varsRelay, varsHeadless, varsListen, varsRegistry, varsConfig, varsOneShot, varsSplit, varsRedact, varsRewrite, varsSessions, varsExtract, varsRace>>
  \/ HandleUpdate /\ UNCHANGED <<varsMirror, varsRelay, varsHeadless, varsListen, varsRegistry, varsConfig, varsOneShot, varsSplit, varsRedact, varsRewrite, varsSessions, varsExtract, varsRace>>
  \/ Stop /\ UNCHANGED <<varsMirror, varsRelay, varsHeadless, varsListen, varsRegistry, varsConfig, varsOneShot, varsSplit, varsRedact, varsRewrite, varsSessions, varsExtract, varsRace>>

\* no update yet, the process not started
InitDispatch ==
  /\ updates = <<>> /\ confirmed = 0 /\ lpc = "down" /\ offset = 0
  /\ batch = <<>> /\ cur = 0 /\ goroutines = {} /\ finished = {}
  /\ effects = {} /\ exit = "none" /\ runs = 0
  /\ pane = <<>> /\ idle = FALSE /\ live = FALSE /\ envEvents = 0
  /\ monHeap = [m \in MonIds |-> NewMonitor] /\ monitors = 0
  /\ cacheFile = EmptyCache /\ nextMsgID = 1 /\ mpc = "init"
  /\ pMon = 0 /\ pExists = FALSE /\ pBlocks = <<>>
  /\ apiWrites = <<>> /\ prevPoll = NoPoll /\ curSame = FALSE
  /\ inSuffix = FALSE /\ finalSync = FALSE /\ seeded = {}
  /\ sendFailed = FALSE
  /\ transfers = 0 /\ tHeap = <<>> /\ chans = <<>> /\ muStuck = FALSE
  /\ reqs = <<>> /\ relayEvents = 0 /\ spoiled = FALSE
  /\ dResp = [ua |-> "", method |-> "", code |-> 0]
  /\ busySessions = {} /\ calls = <<>> /\ agents = [n \in SessionNames |-> 0]
  /\ procs = <<>> /\ lockHolder = 0
  /\ file = [n \in SessionNames |-> [topic |-> 0, resume |-> 0]]
  /\ objs = <<>> /\ config = 0 /\ hpc = [cmd |-> "none"] /\ turn = <<>>
  /\ cli = [pc |-> "none"] /\ nextTopic = 1 /\ nextUUID = 1
  /\ stored = <<>> /\ regEvents = 0
  /\ cfgFile = <<>> /\ origFile = <<>> /\ loadResult = <<>>
  /\ firstResult = <<>> /\ loadCount = 0 /\ migrations = 0
  /\ jobs = <<>>
  /\ msgText = <<>> /\ parts = <<>> /\ cuts = <<>> /\ split = FALSE
  /\ botToken = <<>> /\ returned = <<>> /\ userText = <<>>
  /\ disk = 0 /\ wpc = <<>> /\ saves = 0 /\ seen = <<>>
  /\ sessions = {} /\ tmuxServer = {} /\ workDirs = {} /\ addressed = {}
  /\ probes = {} /\ lastText = <<>>
  /\ screen = <<>> /\ extracted = <<>> /\ ran = FALSE
  /\ pCache = <<>> /\ clearedAt = 0

SpecDispatch == InitDispatch /\ [][NextDispatch]_vars

(***************************************************************************)
(* The dispatch loop's claims.                                             *)
(***************************************************************************)
EffectsOf(id) == {e \in effects : e.id = id}

\* C11: an update of somebody other than the configured user makes no chat
\* write, no callback answer, no keystroke, no agent run and no monitor or
\* registry change, and starts no goroutine; the loop only moves past it.
C11_StrangersCauseNothing ==
  \A id \in 1..Len(updates) :
    updates[id].from = "stranger" =>
      /\ EffectsOf(id) = {}
      /\ id \notin goroutines
      /\ cur = id => offset = id + 1

\* the loop has moved past a stranger's update and handled the owner's
C11_Witness ==
  /\ lpc \in {"fetch", "batch"}
  /\ \E id \in 1..Len(updates) :
       /\ updates[id].from = "stranger" /\ id \in finished /\ offset > id
  /\ \E id \in 1..Len(updates) :
       updates[id].from = "owner" /\ EffectsOf(id) # {}

\* C12: no failure while an update is handled ends the dispatch loop: the
\* listener process never ends by a panic.
C12_LoopSurvives == exit # "panic"

\* the updates of a batch are taken in increasing order of update_id
TakenInOrder ==
  /\ \A i \in 1..(Len(batch) - 1) : batch[i] < batch[i + 1]
  /\ (cur # 0 /\ batch # <<>>) => cur < Head(batch)

\* offset is one more than the id of the update taken last
OffsetFollows ==
  /\ cur # 0 => offset = cur + 1
  /\ batch # <<>> => offset <= Head(batch)

\* an update the platform has dropped has had its handler run to the end,
\* or its handler is still running
NeverLost ==
  \A id \in 1..Len(updates) :
    id < confirmed => id \in finished \/ id \in goroutines

\* C13: updates are handled in increasing update_id order, offset is one
\* more than the id of the update taken last, and no update is confirmed
\* to the platform and then lost without its handler having finished.
C13_AtLeastOnce == TakenInOrder /\ OffsetFollows /\ NeverLost

(***************************************************************************)
(* The registry.  A session is [topic, resume]: its TopicID and its        *)
(* ClaudeSessionID (0 stands for ""); topic 0 stands for a name that is    *)
(* not in Sessions.  loadConfig makes a new Config struct; a turn's        *)
(* sessionInfo points into the struct the loop held when it was started.   *)
(***************************************************************************)
NoSession == [topic |-> 0, resume |-> 0]

EmptyRegistry == [n \in SessionNames |-> NoSession]

\* _, exists := config.Sessions[name]
Registered(cfg, n) == cfg[n].topic # 0

\* session.go 73-80: the names the range loop can return for a topic
getSessionByTopic(cfg, topic) == {n \in SessionNames : cfg[n].topic = topic}

\* a faulty variant: the id of an existing topic comes back
createForumTopicSame(next) == 1

\* telegram.go 379-403: the thread id of the topic the platform made
createForumTopic(next) == next

\* the loop's struct and one struct per turn
ObjIds == 1..(Cardinality(SessionNames) + 1)

NoTurn == [pc |-> "none", obj |-> 0, had |-> FALSE, used |-> 0, expect |-> 0,
           snap |-> EmptyRegistry]

NoCommand == [cmd |-> "none", name |-> "", topic |-> 0]

NoCli == [pc |-> "none", kind |-> "", name |-> "", snap |-> EmptyRegistry]

\* the structs the turns in t point into
TurnRefs(t) == {t[n].obj : n \in {m \in SessionNames : t[m].pc # "none"}}

FreeObj(refs) ==
  CHOOSE o \in ObjIds : o \notin refs /\ \A q \in ObjIds \ refs : o <= q

\* a struct nobody points to is garbage
Keep(os, refs) == [o \in ObjIds |-> IF o \in refs THEN os[o] ELSE EmptyRegistry]

RegistryBudget == regEvents < MaxRegistryEvents

\* Makefile 477-498 and 54-67: the latch is free; the turn resumes the id
\* of its sessionInfo, or mints one and writes it into that struct
StartTurn(os, o, n) ==
  LET id == os[o][n].resume
      had == id # 0
      used == IF had THEN id ELSE nextUUID
  IN [objs |-> IF had THEN os ELSE [os EXCEPT ![o][n].resume = used],
      turn |-> [pc |-> "running", obj |-> o, had |-> had, used |-> used,
                expect |-> stored[n], snap |-> EmptyRegistry],
      minted |-> ~had]

\* a prompt for session n reaches handleHeadlessPrompt with the
\* sessionInfo of struct o; a busy session only gets the notice
Prompt(os, o, n) ==
  IF Registered(os[o], n) /\ turn[n].pc = "none"
  THEN LET r == StartTurn(os, o, n)
       IN /\ turn' = [turn EXCEPT ![n] = r.turn]
          /\ objs' = Keep(r.objs, TurnRefs(turn') \cup {o})
          /\ nextUUID' = IF r.minted THEN nextUUID + 1 ELSE nextUUID
  ELSE /\ objs' = Keep(os, TurnRefs(turn) \cup {o})
       /\ UNCHANGED <<turn, nextUUID>>

\* Makefile 380-393 (also 248-299): text, voice or photo in the topic of
\* session n: the config is loaded again, then the turn is started
TopicPrompt ==
  /\ hpc.cmd = "none"
  /\ RegistryBudget
  /\ regEvents' = regEvents + 1
  /\ \E n \in SessionNames :
       LET o == FreeObj(TurnRefs(turn))
       IN /\ config' = o
          /\ Prompt([objs EXCEPT ![o] = file], o, n)
  /\ UNCHANGED <<file, hpc, cli, nextTopic, stored>>

\* Makefile 201-235: a button of session n: config is used as it is
CallbackPrompt ==
  /\ hpc.cmd = "none"
  /\ RegistryBudget
  /\ regEvents' = regEvents + 1
  /\ \E n \in SessionNames : Prompt(objs, config, n)
  /\ UNCHANGED <<file, config, hpc, cli, nextTopic, stored>>

\* Makefile 502-507: the agent has ended; a turn that minted its id loads
\* the config again
PersistLoad ==
  \E n \in SessionNames :
    /\ turn[n].pc = "running"
    /\ IF ~turn[n].had /\ objs[turn[n].obj][n].resume # 0
       THEN /\ turn' = [turn EXCEPT ![n].pc = "loaded", ![n].snap = file]
            /\ UNCHANGED objs
       ELSE /\ turn' = [turn EXCEPT ![n] = NoTurn]
            /\ objs' = Keep(objs, TurnRefs(turn') \cup {config})
    /\ UNCHANGED <<file, config, hpc, cli, nextTopic, nextUUID, stored, regEvents>>

\* Makefile 508-512: the id is put into the loaded config, which is saved
PersistSave ==
  \E n \in SessionNames :
    /\ turn[n].pc = "loaded"
    /\ LET id == objs[turn[n].obj][n].resume
       IN IF Registered(turn[n].snap, n)
          THEN /\ file' = [turn[n].snap EXCEPT ![n].resume = id]
               /\ stored' = [stored EXCEPT ![n] = id]
          ELSE UNCHANGED <<file, stored>>
    /\ turn' = [turn EXCEPT ![n] = NoTurn]
    /\ objs' = Keep(objs, TurnRefs(turn') \cup {config})
    /\ UNCHANGED <<config, hpc, cli, nextTopic, nextUUID, regEvents>>

RegistryCommands == {"new", "reset", "delete", "cleanup"}

\* the first half of a command of the loop: the config is loaded again and
\* the command's checks are made (/new <name>: Makefile 336-349 and
\* commands.go 980-991; /new: Makefile 363-369; /delete: commands.go
\* 907-913; /cleanup: commands.go 934-939)
Command ==
  /\ hpc.cmd = "none"
  /\ RegistryBudget
  /\ regEvents' = regEvents + 1
  /\ LET o == FreeObj(TurnRefs(turn))
     IN /\ config' = o
        /\ objs' = Keep([objs EXCEPT ![o] = file], TurnRefs(turn) \cup {o})
  /\ \E cmd \in RegistryCommands, n \in SessionNames, made \in BOOLEAN :
       LET goes == CASE cmd = "new" -> ~Registered(file, n) /\ made
                     [] cmd = "cleanup" -> file # EmptyRegistry
                     [] OTHER -> Registered(file, n)
           topic == IF cmd = "new" /\ goes THEN createForumTopic(nextTopic) ELSE 0
       IN /\ hpc' = IF goes THEN [cmd |-> cmd, name |-> n, topic |-> topic]
                    ELSE NoCommand
          /\ nextTopic' = IF cmd = "new" /\ goes THEN nextTopic + 1 ELSE nextTopic
  /\ UNCHANGED <<file, turn, cli, nextUUID, stored>>

\* what the command makes of the loop's config (Makefile 354-357 and 370,
\* commands.go 921 and 968)
Apply(cfg, c) ==
  CASE c.cmd = "new" -> [cfg EXCEPT ![c.name] = [topic |-> c.topic, resume |-> 0]]
    [] c.cmd = "reset" -> [cfg EXCEPT ![c.name].resume = 0]
    [] c.cmd = "delete" -> [cfg EXCEPT ![c.name] = NoSession]
    [] OTHER -> EmptyRegistry

\* the second half: the struct is changed and saveConfig writes it
CommandSave ==
  /\ hpc.cmd # "none"
  /\ objs' = [objs EXCEPT ![config] = Apply(objs[config], hpc)]
  /\ file' = objs'[config]
  /\ stored' = [n \in SessionNames |->
                  IF hpc.cmd = "cleanup" \/ (hpc.cmd # "new" /\ hpc.name = n)
                  THEN 0 ELSE stored[n]]
  /\ hpc' = NoCommand
  /\ UNCHANGED <<config, turn, cli, nextTopic, nextUUID, regEvents>>

\* session.go 83-95 and Makefile 435-444: "ccc" or "ccc headless-start" in
\* a terminal loads the config
CliLoad ==
  /\ cli.pc = "none"
  /\ RegistryBudget
  /\ regEvents' = regEvents + 1
  /\ \E kind \in {"start", "headless-start"}, n \in SessionNames :
       cli' = [pc |-> "loaded", kind |-> kind, name |-> n, snap |-> file]
  /\ UNCHANGED <<file, objs, config, hpc, turn, nextTopic, nextUUID, stored>>

\* session.go 98-111 and Makefile 446-461: a session that is not in the
\* loaded config gets a topic and is saved; headless-start saves in any case
CliSave ==
  /\ cli.pc = "loaded"
  /\ \E made \in BOOLEAN :
       IF ~Registered(cli.snap, cli.name) /\ made
       THEN /\ file' = [cli.snap EXCEPT ![cli.name] =
                          [topic |-> createForumTopic(nextTopic), resume |-> 0]]
            /\ nextTopic' = nextTopic + 1
       ELSE /\ file' = IF cli.kind = "headless-start" /\ Registered(cli.snap, cli.name)
                       THEN cli.snap ELSE file
            /\ UNCHANGED nextTopic
  /\ cli' = NoCli
  /\ UNCHANGED <<objs, config, hpc, turn, nextUUID, stored, regEvents>>

NextRegistry ==
  \/ TopicPrompt /\ UNCHANGED <<varsMirror, varsRelay, varsHeadless, varsListen, varsDispatch, varsConfig, varsOneShot, varsSplit, varsRedact, varsRewrite, varsSessions, varsExtract, varsRace>>
  \/ CallbackPrompt /\ UNCHANGED <<varsMirror, varsRelay, varsHeadless, varsListen, varsDispatch, varsConfig, varsOneShot, varsSplit, varsRedact, varsRewrite, varsSessions, varsExtract, varsRace>>
  \/ PersistLoad /\ UNCHANGED <<varsMirror, varsRelay, varsHeadless, varsListen, varsDispatch, varsConfig, varsOneShot, varsSplit, varsRedact, varsRewrite, varsSessions, varsExtract, varsRace>>
  \/ PersistSave /\ UNCHANGED <<varsMirror, varsRelay, varsHeadless, varsListen, varsDispatch, varsConfig, varsOneShot, varsSplit, varsRedact, varsRewrite, varsSessions, varsExtract, varsRace>>
  \/ Command /\ UNCHANGED <<varsMirror, varsRelay, varsHeadless, varsListen, varsDispatch, varsConfig, varsOneShot, varsSplit, varsRedact, varsRewrite, varsSessions, varsExtract, varsRace>>
  \/ CommandSave /\ UNCHANGED <<varsMirror, varsRelay, varsHeadless, varsListen, varsDispatch, varsConfig, varsOneShot, varsSplit, varsRedact, varsRewrite, varsSessions, varsExtract, varsRace>>
  \/ CliLoad /\ UNCHANGED <<varsMirror, varsRelay, varsHeadless, varsListen, varsDispatch, varsConfig, varsOneShot, varsSplit, varsRedact, varsRewrite, varsSessions, varsExtract, varsRace>>
  \/ CliSave /\ UNCHANGED <<varsMirror, varsRelay, varsHeadless, varsListen, varsDispatch, varsConfig, varsOneShot, varsSplit, varsRedact, varsRewrite, varsSessions, varsExtract, varsRace>>

\* one session or both are registered, with no resume id yet; the listener
\* has loaded the config
InitRegistry ==
  /\ file \in {[EmptyRegistry EXCEPT !["proj"].topic = 1],
               [EmptyRegistry EXCEPT !["proj"].topic = 1, !["other"].topic = 2]}
  /\ objs = Keep([o \in ObjIds |-> file], {1}) /\ config = 1
  /\ hpc = NoCommand /\ turn = [n \in SessionNames |-> NoTurn]
  /\ cli = NoCli /\ nextTopic = 3 /\ nextUUID = 1
  /\ stored = [n \in SessionNames |-> 0] /\ regEvents = 0
  /\ pane = <<>> /\ idle = FALSE /\ live = FALSE /\ envEvents = 0
  /\ monHeap = [m \in MonIds |-> NewMonitor] /\ monitors = 0
  /\ cacheFile = EmptyCache /\ nextMsgID = 1 /\ mpc = "init"
  /\ pMon = 0 /\ pExists = FALSE /\ pBlocks = <<>>
  /\ apiWrites = <<>> /\ prevPoll = NoPoll /\ curSame = FALSE
  /\ inSuffix = FALSE /\ finalSync = FALSE /\ seeded = {}
  /\ sendFailed = FALSE
  /\ transfers = 0 /\ tHeap = <<>> /\ chans = <<>> /\ muStuck = FALSE
  /\ reqs = <<>> /\ relayEvents = 0 /\ spoiled = FALSE
  /\ dResp = [ua |-> "", method |-> "", code |-> 0]
  /\ busySessions = {} /\ calls = <<>> /\ agents = [n \in SessionNames |-> 0]
  /\ procs = <<>> /\ lockHolder = 0
  /\ updates = <<>> /\ confirmed = 0 /\ lpc = "down" /\ offset = 0
  /\ batch = <<>> /\ cur = 0 /\ goroutines = {} /\ finished = {}
  /\ effects = {} /\ exit = "none" /\ runs = 0
  /\ cfgFile = <<>> /\ origFile = <<>> /\ loadResult = <<>>
  /\ firstResult = <<>> /\ loadCount = 0 /\ migrations = 0
  /\ jobs = <<>>
  /\ msgText = <<>> /\ parts = <<>> /\ cuts = <<>> /\ split = FALSE
  /\ botToken = <<>> /\ returned = <<>> /\ userText = <<>>
  /\ disk = 0 /\ wpc = <<>> /\ saves = 0 /\ seen = <<>>
  /\ sessions = {} /\ tmuxServer = {} /\ workDirs = {} /\ addressed = {}
  /\ probes = {} /\ lastText = <<>>
  /\ screen = <<>> /\ extracted = <<>> /\ ran = FALSE
  /\ pCache = <<>> /\ clearedAt = 0

SpecRegistry == InitRegistry /\ [][NextRegistry]_vars

(***************************************************************************)
(* The registry's claims.                                                  *)
(***************************************************************************)
\* no two names of cfg have the same topic
OneNamePerTopic(cfg) ==
  \A t \in 1..nextTopic : Cardinality(getSessionByTopic(cfg, t)) <= 1

C18_NoClobber ==
  [][\A n \in SessionNames :
       (turn[n].pc = "loaded" /\ turn'[n].pc = "none") =>
         \A b \in SessionNames \ {n} : file'[b] = file[b]]_vars

\* C19: a turn started while a resume id is minted and stored for its
\* session resumes that id and mints no other.
C19_ResumeContinuity ==
  \A n \in SessionNames :
    (turn[n].pc # "none" /\ turn[n].expect # 0) => turn[n].used = turn[n].expect


(***************************************************************************)
(* Loading the config file: loadConfig with its migration of the legacy    *)
(* sessions map (name -> topic id) to records (name -> topic id and path). *)
(* A path is a sequence of components; "/" first marks an absolute path    *)
(* and "~" first a home-relative one.                                      *)
(***************************************************************************)

\* os.UserHomeDir()
Home == <<"/", "home">>

\* session names a legacy file may hold: relative, absolute, home-relative
LegacyNames == {<<"proj">>, <<"/", "srv", "proj">>, <<"~", "proj">>}

\* topic ids a legacy file may hold for a name
LegacyTopics == {0, 5}

\* values of projects_dir: unset, absolute, home-relative
ProjectsDirs == {<<>>, <<"/", "work">>, <<"~", "work">>}

\* strings.HasPrefix(p, "/") and strings.HasPrefix(p, "~/")
IsAbs(p) == Len(p) >= 1 /\ p[1] = "/"
IsHomeRel(p) == Len(p) >= 1 /\ p[1] = "~"

\* filepath.Join(base, rest)
Join(base, rest) == base \o rest

\* name[2:] of a name that starts with "~/"
AfterTilde(p) == SubSeq(p, 2, Len(p))

\* the path loadConfig gives a migrated session
sessionPath(name, projectsDir) ==
  IF IsAbs(name) THEN name
  ELSE IF IsHomeRel(name) THEN Join(Home, AfterTilde(name))
  ELSE IF projectsDir # <<>>
    THEN Join(IF IsHomeRel(projectsDir)
                THEN Join(Home, AfterTilde(projectsDir))
                ELSE projectsDir, name)
    ELSE Join(Home, name)

\* the sessions value unmarshals as map[string]int64, is not empty and
\* holds a positive value
needsMigration(f) ==
  /\ f.format = "legacy"
  /\ DOMAIN f.sessions # {}
  /\ \E n \in DOMAIN f.sessions : f.sessions[n] > 0

\* the migrated registry
Migrate(f) ==
  [n \in DOMAIN f.sessions |->
     [TopicID |-> f.sessions[n], Path |-> sessionPath(n, f.projectsDir)]]

\* the fields of a Config beside Sessions and ProjectsDir, at their zero
\* values; a field left out of the file reads as its zero value
ZeroFields ==
  [BotToken |-> "", ChatID |-> 0, GroupID |-> 0, Away |-> FALSE,
   OAuthToken |-> "", TranscriptionLang |-> "", RelayURL |-> ""]

\* the migration branch parses the file into ConfigWithoutSessions, which
\* has bot_token, chat_id, group_id, projects_dir and away, and copies
\* these into a fresh Config
ConfigWithoutSessions(t) ==
  [ZeroFields EXCEPT !.BotToken = t.BotToken, !.ChatID = t.ChatID,
                     !.GroupID = t.GroupID, !.Away = t.Away]

\* loadConfig: what it returns and the file it leaves
loadConfig(f) ==
  IF needsMigration(f)
    THEN [err |-> FALSE, sessions |-> Migrate(f), migrated |-> TRUE,
          fields |-> ConfigWithoutSessions(f.fields),
          projectsDir |-> f.projectsDir,
          file |-> [format |-> "record", sessions |-> Migrate(f),
                    projectsDir |-> f.projectsDir,
                    fields |-> ConfigWithoutSessions(f.fields)]]
  ELSE IF f.format = "legacy" /\ DOMAIN f.sessions # {}
    THEN [err |-> TRUE, sessions |-> <<>>, migrated |-> FALSE,
          fields |-> <<>>, projectsDir |-> <<>>, file |-> f]
  ELSE [err |-> FALSE, sessions |-> f.sessions, migrated |-> FALSE,
        fields |-> f.fields, projectsDir |-> f.projectsDir, file |-> f]

\* the other top-level fields a config file may hold: the token and the
\* chats are set, each of the later fields is set or left out
FileFields ==
  {[BotToken |-> "tok", ChatID |-> 3, GroupID |-> 7, Away |-> a,
    OAuthToken |-> o, TranscriptionLang |-> l, RelayURL |-> u] :
     a \in BOOLEAN, o \in {"", "oauth"}, l \in {"", "es"}, u \in {"", "url"}}

\* the legacy files: every non-empty integer-valued sessions map
LegacyFiles ==
  {[format |-> "legacy", sessions |-> m, projectsDir |-> d, fields |-> t] :
     m \in UNION {[S -> LegacyTopics] : S \in (SUBSET LegacyNames) \ {{}}},
     d \in ProjectsDirs, t \in FileFields}

\* a program starts and loads its config
ProgramStart ==
  /\ loadCount < MaxLoads
  /\ LET r == loadConfig(cfgFile)
     IN /\ loadResult' = [err |-> r.err, sessions |-> r.sessions,
                           fields |-> r.fields, projectsDir |-> r.projectsDir]
        /\ firstResult' = IF loadCount = 0
                            THEN loadResult'
                            ELSE firstResult
        /\ cfgFile' = r.file
        /\ migrations' = migrations + (IF r.migrated THEN 1 ELSE 0)
  /\ loadCount' = loadCount + 1
  /\ UNCHANGED origFile

NextConfig ==
  \/ ProgramStart /\ UNCHANGED <<varsMirror, varsRelay, varsHeadless, varsListen, varsDispatch, varsRegistry, varsOneShot, varsSplit, varsRedact, varsRewrite, varsSessions, varsExtract, varsRace>>

InitConfig ==
  /\ cfgFile \in LegacyFiles /\ origFile = cfgFile /\ loadResult = <<>>
  /\ firstResult = <<>> /\ loadCount = 0 /\ migrations = 0
  /\ pane = <<>> /\ idle = FALSE /\ live = FALSE /\ envEvents = 0
  /\ monHeap = [m \in MonIds |-> NewMonitor] /\ monitors = 0
  /\ cacheFile = EmptyCache /\ nextMsgID = 1 /\ mpc = "init"
  /\ pMon = 0 /\ pExists = FALSE /\ pBlocks = <<>>
  /\ apiWrites = <<>> /\ prevPoll = NoPoll /\ curSame = FALSE
  /\ inSuffix = FALSE /\ finalSync = FALSE /\ seeded = {}
  /\ sendFailed = FALSE
  /\ transfers = 0 /\ tHeap = <<>> /\ chans = <<>> /\ muStuck = FALSE
  /\ reqs = <<>> /\ relayEvents = 0 /\ spoiled = FALSE
  /\ dResp = [ua |-> "", method |-> "", code |-> 0]
  /\ busySessions = {} /\ calls = <<>> /\ agents = [n \in SessionNames |-> 0]
  /\ procs = <<>> /\ lockHolder = 0
  /\ updates = <<>> /\ confirmed = 0 /\ lpc = "down" /\ offset = 0
  /\ batch = <<>> /\ cur = 0 /\ goroutines = {} /\ finished = {}
  /\ effects = {} /\ exit = "none" /\ runs = 0
  /\ file = [n \in SessionNames |-> [topic |-> 0, resume |-> 0]]
  /\ objs = <<>> /\ config = 0 /\ hpc = [cmd |-> "none"] /\ turn = <<>>
  /\ cli = [pc |-> "none"] /\ nextTopic = 1 /\ nextUUID = 1
  /\ stored = <<>> /\ regEvents = 0
  /\ jobs = <<>>
  /\ msgText = <<>> /\ parts = <<>> /\ cuts = <<>> /\ split = FALSE
  /\ botToken = <<>> /\ returned = <<>> /\ userText = <<>>
  /\ disk = 0 /\ wpc = <<>> /\ saves = 0 /\ seen = <<>>
  /\ sessions = {} /\ tmuxServer = {} /\ workDirs = {} /\ addressed = {}
  /\ probes = {} /\ lastText = <<>>
  /\ screen = <<>> /\ extracted = <<>> /\ ran = FALSE
  /\ pCache = <<>> /\ clearedAt = 0

SpecConfig == InitConfig /\ [][NextConfig]_vars

\* the path the migration is to give a name
ExpectedPath(name, projectsDir) ==
  IF IsAbs(name) THEN name
  ELSE IF IsHomeRel(name) THEN Home \o AfterTilde(name)
  ELSE (IF projectsDir = <<>> THEN Home
        ELSE IF IsHomeRel(projectsDir) THEN Home \o AfterTilde(projectsDir)
        ELSE projectsDir) \o name

\* the first load succeeded and returned a record for each name of the
\* legacy map
MigratedRegistry ==
  /\ ~firstResult.err
  /\ DOMAIN firstResult.sessions = DOMAIN origFile.sessions
  /\ \A n \in DOMAIN origFile.sessions :
       /\ firstResult.sessions[n].TopicID = origFile.sessions[n]
       /\ firstResult.sessions[n].Path = ExpectedPath(n, origFile.projectsDir)

\* the file is in record form and later loads return the same registry
\* without migrating
RewrittenOnce ==
  /\ cfgFile.format = "record"
  /\ loadResult = firstResult
  /\ migrations = 1

\* C20: every load of a file whose sessions value is a non-empty
\* integer-valued map succeeds with the record of each name, leaves the
\* file in record form, and a later load returns the same registry without
\* migrating again.
C20_LegacyMigration ==
  loadCount >= 1 => (MigratedRegistry /\ RewrittenOnce)

\* the same for the legacy files that hold a positive topic id
C20_PositiveTopic ==
  (loadCount >= 1 /\ \E n \in DOMAIN origFile.sessions : origFile.sessions[n] > 0)
    => (MigratedRegistry /\ RewrittenOnce)

\* the first load migrated the file
Migrated == loadCount >= 1 /\ needsMigration(origFile)

\* C40: after loadConfig migrated a legacy file, bot_token, chat_id,
\* group_id, projects_dir, away, oauth_token, transcription_lang and
\* relay_url have in the rewritten file and in the returned config the
\* values of the original file.
C40_FieldsKept ==
  Migrated =>
    /\ cfgFile.fields = origFile.fields
    /\ cfgFile.projectsDir = origFile.projectsDir
    /\ firstResult.fields = origFile.fields
    /\ firstResult.projectsDir = origFile.projectsDir

\* the fields of ConfigWithoutSessions
ParsedFields(t) ==
  [BotToken |-> t.BotToken, ChatID |-> t.ChatID, GroupID |-> t.GroupID,
   Away |-> t.Away]

\* C40, for the fields the migration parses: bot_token, chat_id, group_id,
\* projects_dir and away keep their values in the rewritten file and in
\* the returned config.
C40_ParsedFieldsKept ==
  Migrated =>
    /\ ParsedFields(cfgFile.fields) = ParsedFields(origFile.fields)
    /\ cfgFile.projectsDir = origFile.projectsDir
    /\ ParsedFields(firstResult.fields) = ParsedFields(origFile.fields)
    /\ firstResult.projectsDir = origFile.projectsDir

\* C40, for a file that sets none of the later fields: every top-level
\* field beside sessions keeps its value.
C40_KeptWhenLaterFieldsUnset ==
  (Migrated /\ origFile.fields.OAuthToken = ""
            /\ origFile.fields.TranscriptionLang = ""
            /\ origFile.fields.RelayURL = "")
    => (cfgFile.fields = origFile.fields /\ firstResult.fields = origFile.fields)


(***************************************************************************)
(* One-shot runs with a deadline: runClaude (10 minutes) for text in the   *)
(* private chat, executeCommand (2 minutes) for /c.  A reply is the        *)
(* sequence of the parts the code puts in its text, in order.              *)
(***************************************************************************)
JobKinds == {"agent", "shell"}

\* what cmd.Run returns: nil, a failed exit, and, when the context's
\* deadline ended the process, the error of the killed process or the
\* context's error
NoError == "nil"
ExitError == "exit status 1"
Killed == "signal: killed"
DeadlineExceeded == "context deadline exceeded"

RunErrors(deadline) ==
  IF deadline THEN {Killed, DeadlineExceeded} ELSE {NoError, ExitError}

\* the first part of a reply: the stopwatch sign with "Timeout (10min)",
\* and the warning sign of the error form
TimeoutMark == "Timeout (10min)"
ErrorMark == "Warning"

\* stdout and stderr of the run, trimmed: some text or nothing
Outputs == {"text", ""}

\* lines 126-142 and 178-194: the output the run returns
ReturnedOutput(out, err) ==
  IF out # "" THEN out
  ELSE IF err # NoError THEN "Error: " \o err
  ELSE "(no output)"

\* lines 1106-1114: the reply of the private chat's goroutine
AgentReply(output, err) ==
  IF err # NoError
  THEN IF err = DeadlineExceeded   \* strings.Contains(err.Error(), ...)
       THEN <<TimeoutMark, output>>
       ELSE <<ErrorMark, output, "Exit:", err>>
  ELSE <<output>>

\* lines 819-823: the reply to /c
ShellReply(output, err) ==
  IF err # NoError THEN <<ErrorMark, output, "Exit:", err>> ELSE <<output>>

\* text in the private chat or a /c command starts a run
StartJob ==
  /\ Len(jobs) < MaxJobs
  /\ \E kind \in JobKinds :
       jobs' = Append(jobs, [kind |-> kind, pc |-> "running", deadline |-> FALSE,
                             err |-> NoError, reply |-> <<>>])

\* cmd.Run returns, on its own or because the deadline passed, and the
\* handler sends its reply
JobEnds ==
  \E j \in 1..Len(jobs), deadline \in BOOLEAN, out \in Outputs :
    \E err \in RunErrors(deadline) :
      /\ jobs[j].pc = "running"
      /\ LET output == ReturnedOutput(out, err)
         IN jobs' = [jobs EXCEPT ![j] =
              [kind |-> jobs[j].kind, pc |-> "replied", deadline |-> deadline,
               err |-> err,
               reply |-> IF jobs[j].kind = "agent"
                         THEN AgentReply(output, err)
                         ELSE ShellReply(output, err)]]

NextOneShot ==
  \/ StartJob /\ UNCHANGED <<varsMirror, varsRelay, varsHeadless, varsListen, varsDispatch, varsRegistry, varsConfig, varsSplit, varsRedact, varsRewrite, varsSessions, varsExtract, varsRace>>
  \/ JobEnds /\ UNCHANGED <<varsMirror, varsRelay, varsHeadless, varsListen, varsDispatch, varsRegistry, varsConfig, varsSplit, varsRedact, varsRewrite, varsSessions, varsExtract, varsRace>>

InitOneShot ==
  /\ updates = <<>> /\ confirmed = 0 /\ lpc = "down" /\ offset = 0
  /\ batch = <<>> /\ cur = 0 /\ goroutines = {} /\ finished = {}
  /\ effects = {} /\ exit = "none" /\ runs = 0
  /\ pane = <<>> /\ idle = FALSE /\ live = FALSE /\ envEvents = 0
  /\ monHeap = [m \in MonIds |-> NewMonitor] /\ monitors = 0
  /\ cacheFile = EmptyCache /\ nextMsgID = 1 /\ mpc = "init"
  /\ pMon = 0 /\ pExists = FALSE /\ pBlocks = <<>>
  /\ apiWrites = <<>> /\ prevPoll = NoPoll /\ curSame = FALSE
  /\ inSuffix = FALSE /\ finalSync = FALSE /\ seeded = {}
  /\ sendFailed = FALSE
  /\ transfers = 0 /\ tHeap = <<>> /\ chans = <<>> /\ muStuck = FALSE
  /\ reqs = <<>> /\ relayEvents = 0 /\ spoiled = FALSE
  /\ dResp = [ua |-> "", method |-> "", code |-> 0]
  /\ busySessions = {} /\ calls = <<>> /\ agents = [n \in SessionNames |-> 0]
  /\ procs = <<>> /\ lockHolder = 0
  /\ file = [n \in SessionNames |-> [topic |-> 0, resume |-> 0]]
  /\ objs = <<>> /\ config = 0 /\ hpc = [cmd |-> "none"] /\ turn = <<>>
  /\ cli = [pc |-> "none"] /\ nextTopic = 1 /\ nextUUID = 1
  /\ stored = <<>> /\ regEvents = 0
  /\ cfgFile = <<>> /\ origFile = <<>> /\ loadResult = <<>>
  /\ firstResult = <<>> /\ loadCount = 0 /\ migrations = 0
  /\ jobs = <<>>
  /\ msgText = <<>> /\ parts = <<>> /\ cuts = <<>> /\ split = FALSE
  /\ botToken = <<>> /\ returned = <<>> /\ userText = <<>>
  /\ disk = 0 /\ wpc = <<>> /\ saves = 0 /\ seen = <<>>
  /\ sessions = {} /\ tmuxServer = {} /\ workDirs = {} /\ addressed = {}
  /\ probes = {} /\ lastText = <<>>
  /\ screen = <<>> /\ extracted = <<>> /\ ran = FALSE
  /\ pCache = <<>> /\ clearedAt = 0

SpecOneShot == InitOneShot /\ [][NextOneShot]_vars

\* the reply begins with the timeout mark
TimeoutReply(r) == Len(r) >= 1 /\ r[1] = TimeoutMark

\* C26: the reply to a run that its deadline ended begins with the timeout
\* mark, not with the error form.
C26_TimeoutReported ==
  \A j \in 1..Len(jobs) :
    (jobs[j].pc = "replied" /\ jobs[j].deadline) => TimeoutReply(jobs[j].reply)

\* the same for the agent runs whose cmd.Run returned the context's error
C26_ContextErrorReported ==
  \A j \in 1..Len(jobs) :
    (jobs[j].pc = "replied" /\ jobs[j].kind = "agent"
       /\ jobs[j].err = DeadlineExceeded) => TimeoutReply(jobs[j].reply)


(***************************************************************************)
(* telegram.go: splitMessage.  A text is a sequence of bytes; "n" is the   *)
(* newline, " " the space, "x" and "y" any other bytes.                    *)
(***************************************************************************)
Bytes == {"x", "y", " ", "n"}

\* the texts of at most MaxText bytes
AllTexts == UNION {[1..k -> Bytes] : k \in 0..MaxText}

\* strings.LastIndex(s, b) for a single byte b, as a 0-based index, -1 if none
LastIndex(s, b) ==
  IF \E i \in 1..Len(s) : s[i] = b
  THEN (CHOOSE i \in 1..Len(s) : s[i] = b /\ \A k \in (i + 1)..Len(s) : s[k] # b) - 1
  ELSE -1

\* strings.TrimRight(s, " \n")
RECURSIVE TrimRightSpaceNewline(_)
TrimRightSpaceNewline(s) ==
  IF s # <<>> /\ s[Len(s)] \in {" ", "n"}
  THEN TrimRightSpaceNewline(SubSeq(s, 1, Len(s) - 1))
  ELSE s

\* a variant of splitAtOf that tries the space before the newline
splitAtSpaceFirst(remaining, maxLen) ==
  LET window == SubSeq(remaining, 1, maxLen)
      nl == LastIndex(window, "n")
      sp == LastIndex(window, " ")
  IN IF sp > maxLen \div 2 THEN sp + 1
     ELSE IF nl > maxLen \div 2 THEN nl + 1
     ELSE maxLen

\* lines 276-284: where the loop cuts
splitAtOf(remaining, maxLen) ==
  LET window == SubSeq(remaining, 1, maxLen)
      nl == LastIndex(window, "n")
      sp == LastIndex(window, " ")
  IN IF nl > maxLen \div 2 THEN nl + 1
     ELSE IF sp > maxLen \div 2 THEN sp + 1
     ELSE maxLen

\* the loop at lines 269-288; acc is [messages, cuts]
RECURSIVE SplitLoop(_, _, _)
SplitLoop(remaining, maxLen, acc) ==
  IF Len(remaining) = 0 THEN acc
  ELSE IF Len(remaining) <= maxLen
  THEN [acc EXCEPT !.messages = Append(@, remaining)]
  ELSE LET splitAt == splitAtOf(remaining, maxLen)
       IN SplitLoop(SubSeq(remaining, splitAt + 1, Len(remaining)), maxLen,
                    [messages |-> Append(acc.messages,
                                    TrimRightSpaceNewline(SubSeq(remaining, 1, splitAt))),
                     cuts |-> Append(acc.cuts,
                                [remaining |-> remaining, splitAt |-> splitAt])])

\* splitMessage: [messages, cuts]
splitMessage(t, maxLen) ==
  IF Len(t) <= maxLen
  THEN [messages |-> <<t>>, cuts |-> <<>>]
  ELSE SplitLoop(t, maxLen, [messages |-> <<>>, cuts |-> <<>>])

\* sendMessageGetID splits its text (line 122)
Split ==
  /\ ~split
  /\ split' = TRUE
  /\ LET r == splitMessage(msgText, SplitWindow)
     IN parts' = r.messages /\ cuts' = r.cuts
  /\ UNCHANGED msgText

NextSplit ==
  \/ Split /\ UNCHANGED <<varsMirror, varsRelay, varsHeadless, varsListen, varsDispatch, varsRegistry, varsConfig, varsOneShot, varsRedact, varsRewrite, varsSessions, varsExtract, varsRace>>

InitSplit ==
  /\ msgText \in AllTexts /\ parts = <<>> /\ cuts = <<>> /\ split = FALSE
  /\ updates = <<>> /\ confirmed = 0 /\ lpc = "down" /\ offset = 0
  /\ batch = <<>> /\ cur = 0 /\ goroutines = {} /\ finished = {}
  /\ effects = {} /\ exit = "none" /\ runs = 0
  /\ pane = <<>> /\ idle = FALSE /\ live = FALSE /\ envEvents = 0
  /\ monHeap = [m \in MonIds |-> NewMonitor] /\ monitors = 0
  /\ cacheFile = EmptyCache /\ nextMsgID = 1 /\ mpc = "init"
  /\ pMon = 0 /\ pExists = FALSE /\ pBlocks = <<>>
  /\ apiWrites = <<>> /\ prevPoll = NoPoll /\ curSame = FALSE
  /\ inSuffix = FALSE /\ finalSync = FALSE /\ seeded = {}
  /\ sendFailed = FALSE
  /\ transfers = 0 /\ tHeap = <<>> /\ chans = <<>> /\ muStuck = FALSE
  /\ reqs = <<>> /\ relayEvents = 0 /\ spoiled = FALSE
  /\ dResp = [ua |-> "", method |-> "", code |-> 0]
  /\ busySessions = {} /\ calls = <<>> /\ agents = [n \in SessionNames |-> 0]
  /\ procs = <<>> /\ lockHolder = 0
  /\ file = [n \in SessionNames |-> [topic |-> 0, resume |-> 0]]
  /\ objs = <<>> /\ config = 0 /\ hpc = [cmd |-> "none"] /\ turn = <<>>
  /\ cli = [pc |-> "none"] /\ nextTopic = 1 /\ nextUUID = 1
  /\ stored = <<>> /\ regEvents = 0
  /\ cfgFile = <<>> /\ origFile = <<>> /\ loadResult = <<>>
  /\ firstResult = <<>> /\ loadCount = 0 /\ migrations = 0
  /\ jobs = <<>>
  /\ botToken = <<>> /\ returned = <<>> /\ userText = <<>>
  /\ disk = 0 /\ wpc = <<>> /\ saves = 0 /\ seen = <<>>
  /\ sessions = {} /\ tmuxServer = {} /\ workDirs = {} /\ addressed = {}
  /\ probes = {} /\ lastText = <<>>
  /\ screen = <<>> /\ extracted = <<>> /\ ran = FALSE
  /\ pCache = <<>> /\ clearedAt = 0

SpecSplit == InitSplit /\ [][NextSplit]_vars

\* the bytes of s that are neither space nor newline, in order
RECURSIVE Solid(_)
Solid(s) ==
  IF s = <<>> THEN <<>>
  ELSE (IF Head(s) \in {" ", "n"} THEN <<>> ELSE <<Head(s)>>) \o Solid(Tail(s))

\* the parts one after the other
RECURSIVE Concat(_)
Concat(ps) == IF ps = <<>> THEN <<>> ELSE Head(ps) \o Concat(Tail(ps))

\* the 1-based places of byte b in the window that lie beyond its half
Beyond(window, b) ==
  {p \in 1..Len(window) : window[p] = b /\ p - 1 > SplitWindow \div 2}

Greatest(S) == CHOOSE p \in S : \A q \in S : q <= p

\* the cut the rule asks for in a text longer than the window
RuleCut(remaining) ==
  LET window == SubSeq(remaining, 1, SplitWindow)
  IN IF Beyond(window, "n") # {} THEN Greatest(Beyond(window, "n"))
     ELSE IF Beyond(window, " ") # {} THEN Greatest(Beyond(window, " "))
     ELSE SplitWindow

\* C25: splitMessage returns parts of at most the window's length, cuts
\* just after the last newline, else the last space, beyond the window's
\* half, else at the window's end, and every byte that is neither space
\* nor newline is in exactly one part, in the original order.
C25_SplitMessage ==
  split =>
    /\ \A i \in 1..Len(parts) : Len(parts[i]) <= SplitWindow
    /\ \A c \in 1..Len(cuts) : cuts[c].splitAt = RuleCut(cuts[c].remaining)
    /\ Solid(Concat(parts)) = Solid(msgText)

\* a text was cut after a newline although a space follows the newline in
\* the window, and the rest made a second part
C25_Witness ==
  /\ split
  /\ Len(cuts) = 1 /\ Len(parts) = 2
  /\ cuts[1].splitAt = SplitWindow - 1
  /\ msgText[SplitWindow - 1] = "n"
  /\ msgText[SplitWindow] = " "


(***************************************************************************)
(* telegram.go: redactTokenError and the helpers that call it.  A text is  *)
(* a sequence of characters.  The error of a failed HTTP call is the       *)
(* request's URL, which holds the token, followed by the cause.            *)
(***************************************************************************)
TokenChars == {"1", "a"}

\* the bot tokens: non-empty, of digits and letters
Tokens == UNION {[1..k -> TokenChars] : k \in 1..2}

\* the causes a transport error may state
Causes == UNION {[1..k -> TokenChars \cup {":"}] : k \in 0..MaxCause}

\* strings.HasPrefix(s, t)
HasPrefix(s, t) == Len(s) >= Len(t) /\ SubSeq(s, 1, Len(t)) = t

\* strings.Contains(s, t)
Contains(s, t) == \E i \in 1..(Len(s) - Len(t) + 1) : SubSeq(s, i, i + Len(t) - 1) = t

\* strings.ReplaceAll(s, old, new) for a non-empty old: left to right,
\* without overlap
RECURSIVE ReplaceAll(_, _, _)
ReplaceAll(s, old, new) ==
  IF s = <<>> THEN <<>>
  ELSE IF HasPrefix(s, old)
  THEN new \o ReplaceAll(SubSeq(s, Len(old) + 1, Len(s)), old, new)
  ELSE <<Head(s)>> \o ReplaceAll(Tail(s), old, new)

\* a variant of redactTokenError that returns the error as it is
redactNothing(err, token) == err

\* lines 21-26
redactTokenError(err, token) ==
  IF token = <<>> THEN err ELSE ReplaceAll(err, token, <<"*", "*", "*">>)

\* the error of http.Get, http.Post or http.PostForm on a URL of the API
TransportError(token, cause) == <<"/", "b", "o", "t">> \o token \o <<"/", ":">> \o cause

\* errors made without the URL: the API's description, a JSON error, a
\* file error, a read error of the body
LocalErrors == {<<"d">>, <<"j">>, <<"f">>, <<"r">>}

\* lines 98-110 and 134-140: telegramAPI fails in transport, or answers
\* ok = false, and sendMessageGetID returns the error
telegramAPI ==
  /\ \/ \E cause \in Causes :
          returned' = redactTokenError(TransportError(botToken, cause), botToken)
     \/ returned' = <<"d">>
  /\ userText' = <<>>
  /\ UNCHANGED botToken

\* lines 294-336: sendFile
sendFile ==
  /\ \/ \E cause \in Causes :
          returned' = redactTokenError(TransportError(botToken, cause), botToken)
     \/ returned' \in {<<"f">>, <<"d">>}
  /\ userText' = <<>>
  /\ UNCHANGED botToken

\* lines 340-377: downloadTelegramFile fails in one of its two requests or
\* locally, and the handler reports "Download failed: <err>" to the user
downloadTelegramFile ==
  /\ \/ \E cause \in Causes :
          returned' = redactTokenError(TransportError(botToken, cause), botToken)
     \/ returned' \in LocalErrors
  /\ userText' = <<"D", ":">> \o returned'
  /\ UNCHANGED botToken

NextRedact ==
  \/ telegramAPI /\ UNCHANGED <<varsMirror, varsRelay, varsHeadless, varsListen, varsDispatch, varsRegistry, varsConfig, varsOneShot, varsSplit, varsRewrite, varsSessions, varsExtract, varsRace>>
  \/ sendFile /\ UNCHANGED <<varsMirror, varsRelay, varsHeadless, varsListen, varsDispatch, varsRegistry, varsConfig, varsOneShot, varsSplit, varsRewrite, varsSessions, varsExtract, varsRace>>
  \/ downloadTelegramFile /\ UNCHANGED <<varsMirror, varsRelay, varsHeadless, varsListen, varsDispatch, varsRegistry, varsConfig, varsOneShot, varsSplit, varsRewrite, varsSessions, varsExtract, varsRace>>

InitRedact ==
  /\ botToken \in Tokens /\ returned = <<>> /\ userText = <<>>
  /\ updates = <<>> /\ confirmed = 0 /\ lpc = "down" /\ offset = 0
  /\ batch = <<>> /\ cur = 0 /\ goroutines = {} /\ finished = {}
  /\ effects = {} /\ exit = "none" /\ runs = 0
  /\ pane = <<>> /\ idle = FALSE /\ live = FALSE /\ envEvents = 0
  /\ monHeap = [m \in MonIds |-> NewMonitor] /\ monitors = 0
  /\ cacheFile = EmptyCache /\ nextMsgID = 1 /\ mpc = "init"
  /\ pMon = 0 /\ pExists = FALSE /\ pBlocks = <<>>
  /\ apiWrites = <<>> /\ prevPoll = NoPoll /\ curSame = FALSE
  /\ inSuffix = FALSE /\ finalSync = FALSE /\ seeded = {}
  /\ sendFailed = FALSE
  /\ transfers = 0 /\ tHeap = <<>> /\ chans = <<>> /\ muStuck = FALSE
  /\ reqs = <<>> /\ relayEvents = 0 /\ spoiled = FALSE
  /\ dResp = [ua |-> "", method |-> "", code |-> 0]
  /\ busySessions = {} /\ calls = <<>> /\ agents = [n \in SessionNames |-> 0]
  /\ procs = <<>> /\ lockHolder = 0
  /\ file = [n \in SessionNames |-> [topic |-> 0, resume |-> 0]]
  /\ objs = <<>> /\ config = 0 /\ hpc = [cmd |-> "none"] /\ turn = <<>>
  /\ cli = [pc |-> "none"] /\ nextTopic = 1 /\ nextUUID = 1
  /\ stored = <<>> /\ regEvents = 0
  /\ cfgFile = <<>> /\ origFile = <<>> /\ loadResult = <<>>
  /\ firstResult = <<>> /\ loadCount = 0 /\ migrations = 0
  /\ jobs = <<>>
  /\ msgText = <<>> /\ parts = <<>> /\ cuts = <<>> /\ split = FALSE
  /\ disk = 0 /\ wpc = <<>> /\ saves = 0 /\ seen = <<>>
  /\ sessions = {} /\ tmuxServer = {} /\ workDirs = {} /\ addressed = {}
  /\ probes = {} /\ lastText = <<>>
  /\ screen = <<>> /\ extracted = <<>> /\ ran = FALSE
  /\ pCache = <<>> /\ clearedAt = 0

SpecRedact == InitRedact /\ [][NextRedact]_vars

\* C24: neither the error a chat API helper returns nor the text sent to
\* the user holds the bot token.
C24_TokenRedacted ==
  /\ ~Contains(returned, botToken)
  /\ ~Contains(userText, botToken)

\* a failed download was reported to the user with the token replaced, the
\* cause naming the token once more
C24_Witness ==
  /\ Contains(userText, <<"*", "*", "*", "/", ":", "*", "*", "*">>)
  /\ Len(botToken) = 2


(***************************************************************************)
(* saveConfig (os.WriteFile) against concurrent loadConfig (os.ReadFile).  *)
(* os.WriteFile opens the file with O_TRUNC, which empties it, then writes *)
(* the data and closes.                                                    *)
(***************************************************************************)
\* the programs that save the config
Writers == {"listener", "cli"}

\* the tasks that load it
Readers == {"monitor", "loop", "hook", "cli"}

\* os.OpenFile(name, O_WRONLY|O_CREATE|O_TRUNC, perm): the content after it
OpenTrunc(old) == 0

\* saveConfig, lines 757-761: the data is marshalled and the file opened
SaveOpen ==
  /\ saves < MaxSaves
  /\ \E w \in Writers :
       /\ wpc[w] = 0
       /\ wpc' = [wpc EXCEPT ![w] = saves + 1]
  /\ saves' = saves + 1
  /\ disk' = OpenTrunc(disk)
  /\ UNCHANGED seen

\* the data is saves and the file closed
SaveWrite ==
  /\ \E w \in Writers :
       /\ wpc[w] # 0
       /\ disk' = wpc[w]
       /\ wpc' = [wpc EXCEPT ![w] = 0]
  /\ UNCHANGED <<saves, seen>>

\* loadConfig, lines 667-676: the file is read; empty data is not JSON
ReadConfig ==
  /\ \E r \in Readers :
       /\ r = "cli" => wpc["cli"] = 0   \* the terminal command has one thread
       /\ seen' = [by |-> r, content |-> disk, err |-> disk = 0]
  /\ UNCHANGED <<disk, wpc, saves>>

NextRewrite ==
  \/ SaveOpen /\ UNCHANGED <<varsMirror, varsRelay, varsHeadless, varsListen, varsDispatch, varsRegistry, varsConfig, varsOneShot, varsSplit, varsRedact, varsSessions, varsExtract, varsRace>>
  \/ SaveWrite /\ UNCHANGED <<varsMirror, varsRelay, varsHeadless, varsListen, varsDispatch, varsRegistry, varsConfig, varsOneShot, varsSplit, varsRedact, varsSessions, varsExtract, varsRace>>
  \/ ReadConfig /\ UNCHANGED <<varsMirror, varsRelay, varsHeadless, varsListen, varsDispatch, varsRegistry, varsConfig, varsOneShot, varsSplit, varsRedact, varsSessions, varsExtract, varsRace>>

InitRewrite ==
  /\ disk = 1 /\ wpc = [w \in Writers |-> 0] /\ saves = 1
  /\ seen = [by |-> "loop", content |-> 1, err |-> FALSE]
  /\ updates = <<>> /\ confirmed = 0 /\ lpc = "down" /\ offset = 0
  /\ batch = <<>> /\ cur = 0 /\ goroutines = {} /\ finished = {}
  /\ effects = {} /\ exit = "none" /\ runs = 0
  /\ pane = <<>> /\ idle = FALSE /\ live = FALSE /\ envEvents = 0
  /\ monHeap = [m \in MonIds |-> NewMonitor] /\ monitors = 0
  /\ cacheFile = EmptyCache /\ nextMsgID = 1 /\ mpc = "init"
  /\ pMon = 0 /\ pExists = FALSE /\ pBlocks = <<>>
  /\ apiWrites = <<>> /\ prevPoll = NoPoll /\ curSame = FALSE
  /\ inSuffix = FALSE /\ finalSync = FALSE /\ seeded = {}
  /\ sendFailed = FALSE
  /\ transfers = 0 /\ tHeap = <<>> /\ chans = <<>> /\ muStuck = FALSE
  /\ reqs = <<>> /\ relayEvents = 0 /\ spoiled = FALSE
  /\ dResp = [ua |-> "", method |-> "", code |-> 0]
  /\ busySessions = {} /\ calls = <<>> /\ agents = [n \in SessionNames |-> 0]
  /\ procs = <<>> /\ lockHolder = 0
  /\ file = [n \in SessionNames |-> [topic |-> 0, resume |-> 0]]
  /\ objs = <<>> /\ config = 0 /\ hpc = [cmd |-> "none"] /\ turn = <<>>
  /\ cli = [pc |-> "none"] /\ nextTopic = 1 /\ nextUUID = 1
  /\ stored = <<>> /\ regEvents = 0
  /\ cfgFile = <<>> /\ origFile = <<>> /\ loadResult = <<>>
  /\ firstResult = <<>> /\ loadCount = 0 /\ migrations = 0
  /\ jobs = <<>>
  /\ msgText = <<>> /\ parts = <<>> /\ cuts = <<>> /\ split = FALSE
  /\ botToken = <<>> /\ returned = <<>> /\ userText = <<>>
  /\ sessions = {} /\ tmuxServer = {} /\ workDirs = {} /\ addressed = {}
  /\ probes = {} /\ lastText = <<>>
  /\ screen = <<>> /\ extracted = <<>> /\ ran = FALSE
  /\ pCache = <<>> /\ clearedAt = 0

SpecRewrite == InitRewrite /\ [][NextRewrite]_vars

\* C28: a load that runs while the config is saved reads the complete old
\* or the complete new file, never an empty one.
C28_AtomicRewrite ==
  seen.content \in 1..MaxSaves /\ ~seen.err


(***************************************************************************)
(* Sessions and their tmux sessions: src/commands.go lines 656-1080,       *)
(* src/tmux.go lines 63-192, src/session.go lines 17-21.  A name is the    *)
(* sequence of its characters; a tmux session name is the token "claude-"  *)
(* followed by characters.                                                 *)
(***************************************************************************)
ProjectNames == {<<"f">>, <<"f", ".", "b">>, <<"f", "_", "b">>, <<"g">>}

\* strings.ReplaceAll(s, ".", "_")
ReplaceDots(s) == [i \in 1..Len(s) |-> IF s[i] = "." THEN "_" ELSE s[i]]

\* session.go lines 17-21
sessionName(nm) == <<"claude-">> \o ReplaceDots(nm)

\* commands.go line 1004: the identifier of /new <name>
newTmuxName(nm) == <<"claude-">> \o nm

Dotted(s) == \E i \in 1..Len(s) : s[i] = "."

\* tmux resolves "-t target" to a session: a target holding a period and no
\* colon is read as window.pane and names no session; otherwise the session
\* of exactly that name, and failing that the only session whose name
\* starts with the target.
FindTarget(srv, target) ==
  IF Dotted(target) THEN {}
  ELSE IF target \in srv THEN {target}
  ELSE LET starts == {s \in srv : HasPrefix(s, target)}
       IN  IF Cardinality(starts) = 1 THEN starts ELSE {}

\* tmux.go lines 63-66: has-session -t name
tmuxSessionExists(srv, tid) == FindTarget(srv, tid) # {}

\* tmux.go lines 189-192: kill-session -t name
killTmuxSession(srv, tid) == srv \ FindTarget(srv, tid)

\* tmux.go lines 68-90: new-session -d -s name.  The command can fail
\* (no tmux, a session of that name lives); a name holding a period is
\* refused by older tmux versions and stored with "_" by newer ones.
createTmuxSession(srv, tid) ==
  {[err |-> TRUE, server |-> srv]}
    \cup (IF ReplaceDots(tid) \in srv THEN {}
          ELSE {[err |-> FALSE, server |-> srv \cup {ReplaceDots(tid)}]})

Addr(op, nm, tid) == [op |-> op, name |-> nm, id |-> tid]

\* one tmuxSessionExists call: its argument, its result, and whether a
\* session of exactly that name lives
Probe(srv, tid) ==
  [id |-> tid, result |-> tmuxSessionExists(srv, tid), exact |-> tid \in srv]

\* a variant: /cleanup removes the folders of the sessions it cleans
projectFoldersRemoved(dirs, cleaned) == dirs \ cleaned

\* commands.go lines 951-952: /cleanup leaves the project folders alone
projectFolders(dirs, cleaned) == dirs

\* commands.go lines 980-1016: /new <name>
NewNamed(arg) ==
  /\ arg \notin sessions
  /\ \E topicOK \in BOOLEAN :
       IF ~topicOK
       THEN /\ addressed' = {} /\ probes' = {}
            /\ UNCHANGED <<sessions, tmuxServer, workDirs>>
       ELSE \E created \in createTmuxSession(tmuxServer, newTmuxName(arg)) :
              /\ sessions' = sessions \cup {arg}
              /\ workDirs' = workDirs \cup {arg}
              /\ tmuxServer' = created.server
              /\ addressed' = {Addr("create", arg, newTmuxName(arg))}
                   \cup (IF created.err THEN {}
                         ELSE {Addr("exists", arg, newTmuxName(arg))})
              /\ probes' = IF created.err THEN {}
                           ELSE {Probe(created.server, newTmuxName(arg))}
  /\ UNCHANGED lastText

\* the common part of /new without a name and /continue: kill the live
\* session, make the folder, create the session, look whether it lives
RestartSession(nm) ==
  LET tid == sessionName(nm)
      first == Probe(tmuxServer, tid)
      killed == IF first.result THEN killTmuxSession(tmuxServer, tid) ELSE tmuxServer
  IN  \E created \in createTmuxSession(killed, tid) :
        /\ workDirs' = workDirs \cup {nm}
        /\ tmuxServer' = created.server
        /\ addressed' = {Addr("exists", nm, tid), Addr("create", nm, tid)}
             \cup (IF first.result THEN {Addr("kill", nm, tid)} ELSE {})
        /\ probes' = {first} \cup (IF created.err THEN {}
                                   ELSE {Probe(created.server, tid)})
        /\ UNCHANGED <<sessions, lastText>>

\* commands.go lines 1019-1043: /new in the topic of a session
NewRestart(nm) ==
  /\ nm \in sessions
  /\ RestartSession(nm)

\* commands.go lines 870-904: /continue
ContinueSession(nm) ==
  /\ nm \in sessions
  /\ RestartSession(nm)

\* commands.go lines 907-931: /delete
DeleteSession(nm) ==
  /\ nm \in sessions
  /\ LET tid == sessionName(nm)
         first == Probe(tmuxServer, tid)
     IN  /\ tmuxServer' = IF first.result THEN killTmuxSession(tmuxServer, tid)
                          ELSE tmuxServer
         /\ addressed' = {Addr("exists", nm, tid)}
              \cup (IF first.result THEN {Addr("kill", nm, tid)} ELSE {})
         /\ probes' = {first}
  /\ sessions' = sessions \ {nm}
  /\ UNCHANGED <<workDirs, lastText>>

\* the orders in which a range over the map can visit the sessions
Orders(S) ==
  {q \in [1..Cardinality(S) -> S] : \A i, j \in DOMAIN q : q[i] = q[j] => i = j}

\* commands.go lines 944-965: the loop of /cleanup from its i-th session on
RECURSIVE CleanupLoop(_, _, _)
CleanupLoop(run, ord, i) ==
  IF i > Len(ord) THEN run
  ELSE LET tid == sessionName(ord[i])
           first == Probe(run.server, tid)
       IN  CleanupLoop([server |-> IF first.result
                                   THEN killTmuxSession(run.server, tid)
                                   ELSE run.server,
                        probes |-> run.probes \cup {first},
                        addressed |-> run.addressed \cup {Addr("exists", ord[i], tid)}
                          \cup (IF first.result THEN {Addr("kill", ord[i], tid)}
                                ELSE {})],
                       ord, i + 1)

\* commands.go lines 934-977: /cleanup
CleanupSessions ==
  /\ sessions # {}
  /\ \E ord \in Orders(sessions) :
       LET run == CleanupLoop([server |-> tmuxServer, probes |-> {}, addressed |-> {}],
                              ord, 1)
       IN  /\ tmuxServer' = run.server
           /\ probes' = run.probes
           /\ addressed' = run.addressed
  /\ workDirs' = projectFolders(workDirs, sessions)
  /\ sessions' = {}
  /\ UNCHANGED lastText

\* commands.go lines 1051-1080: a text message in the topic of a session
TopicText(nm) ==
  /\ nm \in sessions
  /\ LET tid == sessionName(nm)
         first == Probe(tmuxServer, tid)
     IN  IF first.result
         THEN /\ lastText' = [name |-> nm, steps |-> <<"reset", "keys">>,
                              keysTo |-> FindTarget(tmuxServer, tid)]
              /\ addressed' = {Addr("exists", nm, tid), Addr("keys", nm, tid)}
              /\ probes' = {first}
              /\ UNCHANGED <<tmuxServer, workDirs>>
         ELSE \E created \in createTmuxSession(tmuxServer, tid) :
                /\ workDirs' = workDirs \cup {nm}
                /\ tmuxServer' = created.server
                /\ probes' = {first}
                /\ IF created.err
                   THEN /\ lastText' = [name |-> nm, steps |-> <<"failed">>,
                                        keysTo |-> {}]
                        /\ addressed' = {Addr("exists", nm, tid),
                                         Addr("create", nm, tid)}
                   ELSE /\ lastText' = [name |-> nm,
                                        steps |-> <<"create", "advisory", "reset", "keys">>,
                                        keysTo |-> FindTarget(created.server, tid)]
                        /\ addressed' = {Addr("exists", nm, tid),
                                         Addr("create", nm, tid),
                                         Addr("keys", nm, tid)}
  /\ UNCHANGED sessions

\* a handler that acts on the session only when it lives
Drive(nm, op) ==
  /\ nm \in sessions
  /\ probes' = {Probe(tmuxServer, sessionName(nm))}
  /\ addressed' = {Addr("exists", nm, sessionName(nm))}
       \cup (IF tmuxSessionExists(tmuxServer, sessionName(nm))
             THEN {Addr(op, nm, sessionName(nm))} ELSE {})
  /\ UNCHANGED <<sessions, tmuxServer, workDirs, lastText>>

\* commands.go lines 711-796: a voice message, a photo or a document
MediaMessage(nm) == Drive(nm, "keys")

\* commands.go lines 656-700: a button pressed under a question
CallbackDrive(nm) == Drive(nm, "callback")

\* monitor.go lines 304, 387, 446: the monitor reads the pane
PaneCapture(nm) == Drive(nm, "capture")

\* the shell of a tmux session exits
SessionEnds(tid) ==
  /\ tid \in tmuxServer
  /\ tmuxServer' = tmuxServer \ {tid}
  /\ addressed' = {} /\ probes' = {}
  /\ UNCHANGED <<sessions, workDirs, lastText>>

NextSessions ==
  \/ \E arg \in ProjectNames : NewNamed(arg) /\ UNCHANGED <<varsMirror, varsRelay, varsHeadless, varsListen, varsDispatch, varsRegistry, varsConfig, varsOneShot, varsSplit, varsRedact, varsRewrite, varsExtract, varsRace>>
  \/ \E nm \in ProjectNames : NewRestart(nm) /\ UNCHANGED <<varsMirror, varsRelay, varsHeadless, varsListen, varsDispatch, varsRegistry, varsConfig, varsOneShot, varsSplit, varsRedact, varsRewrite, varsExtract, varsRace>>
  \/ \E nm \in ProjectNames : ContinueSession(nm) /\ UNCHANGED <<varsMirror, varsRelay, varsHeadless, varsListen, varsDispatch, varsRegistry, varsConfig, varsOneShot, varsSplit, varsRedact, varsRewrite, varsExtract, varsRace>>
  \/ \E nm \in ProjectNames : DeleteSession(nm) /\ UNCHANGED <<varsMirror, varsRelay, varsHeadless, varsListen, varsDispatch, varsRegistry, varsConfig, varsOneShot, varsSplit, varsRedact, varsRewrite, varsExtract, varsRace>>
  \/ CleanupSessions /\ UNCHANGED <<varsMirror, varsRelay, varsHeadless, varsListen, varsDispatch, varsRegistry, varsConfig, varsOneShot, varsSplit, varsRedact, varsRewrite, varsExtract, varsRace>>
  \/ \E nm \in ProjectNames : TopicText(nm) /\ UNCHANGED <<varsMirror, varsRelay, varsHeadless, varsListen, varsDispatch, varsRegistry, varsConfig, varsOneShot, varsSplit, varsRedact, varsRewrite, varsExtract, varsRace>>
  \/ \E nm \in ProjectNames : MediaMessage(nm) /\ UNCHANGED <<varsMirror, varsRelay, varsHeadless, varsListen, varsDispatch, varsRegistry, varsConfig, varsOneShot, varsSplit, varsRedact, varsRewrite, varsExtract, varsRace>>
  \/ \E nm \in ProjectNames : CallbackDrive(nm) /\ UNCHANGED <<varsMirror, varsRelay, varsHeadless, varsListen, varsDispatch, varsRegistry, varsConfig, varsOneShot, varsSplit, varsRedact, varsRewrite, varsExtract, varsRace>>
  \/ \E nm \in ProjectNames : PaneCapture(nm) /\ UNCHANGED <<varsMirror, varsRelay, varsHeadless, varsListen, varsDispatch, varsRegistry, varsConfig, varsOneShot, varsSplit, varsRedact, varsRewrite, varsExtract, varsRace>>
  \/ \E tid \in tmuxServer : SessionEnds(tid) /\ UNCHANGED <<varsMirror, varsRelay, varsHeadless, varsListen, varsDispatch, varsRegistry, varsConfig, varsOneShot, varsSplit, varsRedact, varsRewrite, varsExtract, varsRace>>

InitSessions ==
  /\ sessions = {} /\ tmuxServer = {} /\ workDirs = {} /\ addressed = {}
  /\ probes = {} /\ lastText = [name |-> <<>>, steps |-> <<>>, keysTo |-> {}]
  /\ updates = <<>> /\ confirmed = 0 /\ lpc = "down" /\ offset = 0
  /\ batch = <<>> /\ cur = 0 /\ goroutines = {} /\ finished = {}
  /\ effects = {} /\ exit = "none" /\ runs = 0
  /\ pane = <<>> /\ idle = FALSE /\ live = FALSE /\ envEvents = 0
  /\ monHeap = [m \in MonIds |-> NewMonitor] /\ monitors = 0
  /\ cacheFile = EmptyCache /\ nextMsgID = 1 /\ mpc = "init"
  /\ pMon = 0 /\ pExists = FALSE /\ pBlocks = <<>>
  /\ apiWrites = <<>> /\ prevPoll = NoPoll /\ curSame = FALSE
  /\ inSuffix = FALSE /\ finalSync = FALSE /\ seeded = {}
  /\ sendFailed = FALSE
  /\ transfers = 0 /\ tHeap = <<>> /\ chans = <<>> /\ muStuck = FALSE
  /\ reqs = <<>> /\ relayEvents = 0 /\ spoiled = FALSE
  /\ dResp = [ua |-> "", method |-> "", code |-> 0]
  /\ busySessions = {} /\ calls = <<>> /\ agents = [n \in SessionNames |-> 0]
  /\ procs = <<>> /\ lockHolder = 0
  /\ file = [n \in SessionNames |-> [topic |-> 0, resume |-> 0]]
  /\ objs = <<>> /\ config = 0 /\ hpc = [cmd |-> "none"] /\ turn = <<>>
  /\ cli = [pc |-> "none"] /\ nextTopic = 1 /\ nextUUID = 1
  /\ stored = <<>> /\ regEvents = 0
  /\ cfgFile = <<>> /\ origFile = <<>> /\ loadResult = <<>>
  /\ firstResult = <<>> /\ loadCount = 0 /\ migrations = 0
  /\ jobs = <<>>
  /\ msgText = <<>> /\ parts = <<>> /\ cuts = <<>> /\ split = FALSE
  /\ botToken = <<>> /\ returned = <<>> /\ userText = <<>>
  /\ disk = 0 /\ wpc = <<>> /\ saves = 0 /\ seen = <<>>
  /\ screen = <<>> /\ extracted = <<>> /\ ran = FALSE
  /\ pCache = <<>> /\ clearedAt = 0

SpecSessions == InitSessions /\ [][NextSessions]_vars


\* C21: every tmux command issued for a session addresses it as "claude-"
\* followed by the session's name with each "." replaced by "_", so the
\* create and the later lookups of one name use one identifier.
C21_Canonical == \A a \in addressed : a.id = sessionName(a.name)

\* C22: tmuxSessionExists returns true only when a session of exactly the
\* asked name lives, never because the asked name starts another's name.
C22_ExactMatch == \A p \in probes : p.result => p.exact

\* C27: no step removes a project folder: the folders that exist before a
\* command exist after it.
C27_FoldersKept == [][workDirs \subseteq workDirs']_vars

\* a session was deleted or cleaned up and its folder is still there
C27_Witness == \E nm \in workDirs : nm \notin sessions

Has(q, x) == \E i \in 1..Len(q) : q[i] = x

Pos(q, x) == CHOOSE i \in 1..Len(q) : q[i] = x

\* C30: for a text message in the topic of a session the monitor is reset
\* first, then a dead session is recreated and the advisory posted, and
\* only then the keys are sent, and they go to the session of that name.
C30_DispatchOrder ==
  Has(lastText.steps, "keys") =>
    /\ Has(lastText.steps, "reset")
    /\ Pos(lastText.steps, "reset") < Pos(lastText.steps, "keys")
    /\ Has(lastText.steps, "create") =>
         /\ Pos(lastText.steps, "reset") < Pos(lastText.steps, "create")
         /\ Pos(lastText.steps, "create") < Pos(lastText.steps, "advisory")
         /\ Pos(lastText.steps, "advisory") < Pos(lastText.steps, "keys")
    /\ lastText.keysTo \subseteq {sessionName(lastText.name)}

\* C30, the part about the reset: the keys of a text message are sent
\* after the monitor was reset.
C30_KeysAfterReset ==
  Has(lastText.steps, "keys") =>
    /\ Has(lastText.steps, "reset")
    /\ Pos(lastText.steps, "reset") < Pos(lastText.steps, "keys")

\* C30, the part about the receiver: the keys of a text message reach no
\* other session than the one of the topic's name.
C30_KeysToOwnSession == lastText.keysTo \subseteq {sessionName(lastText.name)}

HasUnderscore(nm) == \E i \in 1..Len(nm) : nm[i] = "_"

\* C39: two different names of the registry have different tmux session
\* names, so no two registered sessions share one tmux session.
C39_Injective ==
  \A a, b \in sessions : a # b => sessionName(a) # sessionName(b)

\* C39, for names without "_": two different registered names that hold
\* no underscore have different tmux session names.
C39_InjectiveNoUnderscore ==
  \A a, b \in sessions :
    (a # b /\ ~HasUnderscore(a) /\ ~HasUnderscore(b))
      => sessionName(a) # sessionName(b)


(***************************************************************************)
(* extractBlocks: src/monitor.go lines 145-257.  A line is the sequence   *)
(* of its characters: "REC", "DOT" and "STAR" stand for the three bullet   *)
(* glyphs, "SPIN" for the other spinner glyphs, "RULE" for a run of box    *)
(* rules, "PROMPT" for the prompt glyph, "MODE" for the mode marker, "n"   *)
(* for a newline.                                                          *)
(***************************************************************************)
MaxLines == 3

ScreenLines ==
  {<<>>, <<"x">>, <<" ", "x">>, <<"REC">>, <<"REC", " ", "x">>, <<"REC", "x">>,
   <<"REC", " ", " ", "x">>, <<"DOT", " ", "x">>, <<"DOT", "x">>,
   <<"STAR", " ", "x">>, <<"STAR", "x">>, <<"SPIN", "x">>, <<" ", "REC", " ", "x">>,
   <<"RULE">>, <<"PROMPT">>, <<"MODE">>}

Screens == UNION {[1..k -> ScreenLines] : k \in 1..MaxLines}

RECURSIVE TrimWhiteLeft(_)
TrimWhiteLeft(t) ==
  IF t # <<>> /\ Head(t) \in {" ", "n"} THEN TrimWhiteLeft(Tail(t)) ELSE t

RECURSIVE TrimWhiteRight(_)
TrimWhiteRight(t) ==
  IF t # <<>> /\ t[Len(t)] \in {" ", "n"}
  THEN TrimWhiteRight(SubSeq(t, 1, Len(t) - 1)) ELSE t

\* strings.TrimSpace on a text that can hold newlines
TrimWhite(t) == TrimWhiteRight(TrimWhiteLeft(t))

\* monitor.go lines 217-221
isBulletLine(trimmed) ==
  \/ HasPrefix(trimmed, <<"REC">>)
  \/ HasPrefix(trimmed, <<"DOT", " ">>)
  \/ HasPrefix(trimmed, <<"STAR", " ">>)

\* monitor.go lines 224-231
isStatusLine(trimmed) ==
  \/ HasPrefix(trimmed, <<"SPIN">>)
  \/ HasPrefix(trimmed, <<"STAR">>)
  \/ HasPrefix(trimmed, <<"+">>)
  \/ HasPrefix(trimmed, <<"*">>)

\* monitor.go lines 249-257: the first matching prefix is cut off
removeBulletPrefix(s) ==
  IF HasPrefix(s, <<"REC", " ", " ">>) THEN SubSeq(s, 4, Len(s))
  ELSE IF HasPrefix(s, <<"REC", " ">>) THEN SubSeq(s, 3, Len(s))
  ELSE IF HasPrefix(s, <<"DOT", " ">>) THEN SubSeq(s, 3, Len(s))
  ELSE IF HasPrefix(s, <<"STAR", " ">>) THEN SubSeq(s, 3, Len(s))
  ELSE s

\* monitor.go lines 158-168: the first non-empty line among the next three
\* starts with the prompt
isFinalInputBox(lines, i) ==
  LET next == {j \in (i + 1)..(i + 3) : j <= Len(lines) /\ TrimSpace(lines[j]) # <<>>}
  IN  /\ next # {}
      /\ HasPrefix(TrimSpace(lines[CHOOSE j \in next : \A k \in next : j <= k]),
                   <<"PROMPT">>)

\* monitor.go lines 210-212 and 173-174, 193-194: append the block in work
Flush(st) ==
  IF st.inBlock /\ Len(st.currentBlock) > 0
  THEN Append(st.blocks, TrimWhite(st.currentBlock))
  ELSE st.blocks

\* monitor.go lines 150-208: the loop from line i on
RECURSIVE ExtractLoop(_, _, _)
ExtractLoop(lines, i, st) ==
  IF i > Len(lines) THEN st
  ELSE LET trimmed == TrimSpace(lines[i])
       IN  IF HasPrefix(trimmed, <<"RULE">>)
           THEN IF isFinalInputBox(lines, i) THEN st
                ELSE IF st.inBlock /\ Len(st.currentBlock) > 0
                     THEN ExtractLoop(lines, i + 1,
                            [blocks |-> Flush(st), currentBlock |-> <<>>,
                             inBlock |-> FALSE])
                     ELSE ExtractLoop(lines, i + 1, st)
           ELSE IF isStatusLine(trimmed) THEN ExtractLoop(lines, i + 1, st)
           ELSE IF HasPrefix(trimmed, <<"MODE">>) \/ HasPrefix(trimmed, <<"PROMPT">>)
                THEN ExtractLoop(lines, i + 1, st)
           ELSE IF isBulletLine(trimmed)
                THEN ExtractLoop(lines, i + 1,
                       [blocks |-> Flush(st),
                        currentBlock |-> removeBulletPrefix(trimmed),
                        inBlock |-> TRUE])
           ELSE IF st.inBlock
                THEN ExtractLoop(lines, i + 1,
                       [st EXCEPT !.currentBlock = @ \o <<"n">> \o trimmed])
           ELSE ExtractLoop(lines, i + 1, st)

\* monitor.go lines 145-215, over the whole slice
extractBlocks(lines) ==
  Flush(ExtractLoop(lines, 1, [blocks |-> <<>>, currentBlock |-> <<>>,
                               inBlock |-> FALSE]))

\* getLastBlocksFromTmux hands the captured lines to extractBlocks
Extract ==
  /\ ~ran
  /\ extracted' = extractBlocks(screen)
  /\ ran' = TRUE
  /\ UNCHANGED screen

NextExtract ==
  \/ Extract /\ UNCHANGED <<varsMirror, varsRelay, varsHeadless, varsListen, varsDispatch, varsRegistry, varsConfig, varsOneShot, varsSplit, varsRedact, varsRewrite, varsSessions, varsRace>>

InitExtract ==
  /\ screen \in Screens /\ extracted = <<>> /\ ran = FALSE
  /\ updates = <<>> /\ confirmed = 0 /\ lpc = "down" /\ offset = 0
  /\ batch = <<>> /\ cur = 0 /\ goroutines = {} /\ finished = {}
  /\ effects = {} /\ exit = "none" /\ runs = 0
  /\ pane = <<>> /\ idle = FALSE /\ live = FALSE /\ envEvents = 0
  /\ monHeap = [m \in MonIds |-> NewMonitor] /\ monitors = 0
  /\ cacheFile = EmptyCache /\ nextMsgID = 1 /\ mpc = "init"
  /\ pMon = 0 /\ pExists = FALSE /\ pBlocks = <<>>
  /\ apiWrites = <<>> /\ prevPoll = NoPoll /\ curSame = FALSE
  /\ inSuffix = FALSE /\ finalSync = FALSE /\ seeded = {}
  /\ sendFailed = FALSE
  /\ transfers = 0 /\ tHeap = <<>> /\ chans = <<>> /\ muStuck = FALSE
  /\ reqs = <<>> /\ relayEvents = 0 /\ spoiled = FALSE
  /\ dResp = [ua |-> "", method |-> "", code |-> 0]
  /\ busySessions = {} /\ calls = <<>> /\ agents = [n \in SessionNames |-> 0]
  /\ procs = <<>> /\ lockHolder = 0
  /\ file = [n \in SessionNames |-> [topic |-> 0, resume |-> 0]]
  /\ objs = <<>> /\ config = 0 /\ hpc = [cmd |-> "none"] /\ turn = <<>>
  /\ cli = [pc |-> "none"] /\ nextTopic = 1 /\ nextUUID = 1
  /\ stored = <<>> /\ regEvents = 0
  /\ cfgFile = <<>> /\ origFile = <<>> /\ loadResult = <<>>
  /\ firstResult = <<>> /\ loadCount = 0 /\ migrations = 0
  /\ jobs = <<>>
  /\ msgText = <<>> /\ parts = <<>> /\ cuts = <<>> /\ split = FALSE
  /\ botToken = <<>> /\ returned = <<>> /\ userText = <<>>
  /\ disk = 0 /\ wpc = <<>> /\ saves = 0 /\ seen = <<>>
  /\ sessions = {} /\ tmuxServer = {} /\ workDirs = {} /\ addressed = {}
  /\ probes = {} /\ lastText = <<>>
  /\ pCache = <<>> /\ clearedAt = 0

SpecExtract == InitExtract /\ [][NextExtract]_vars

\* the lines of the screen that the claim calls bullet lines, in order
RECURSIVE BulletLines(_)
BulletLines(lines) ==
  IF lines = <<>> THEN <<>>
  ELSE IF isBulletLine(TrimSpace(Head(lines)))
       THEN <<TrimSpace(Head(lines))>> \o BulletLines(Tail(lines))
       ELSE BulletLines(Tail(lines))

NoRule(lines) == \A i \in 1..Len(lines) : ~HasPrefix(TrimSpace(lines[i]), <<"RULE">>)

\* C31: on a screen without box rules every line whose trimmed text starts
\* with one of the three bullet prefixes opens a block of its own, and the
\* block starts with the line's text without the bullet prefix.
C31_BulletOpensBlock ==
  (ran /\ NoRule(screen)) =>
    /\ Len(extracted) = Len(BulletLines(screen))
    /\ \A k \in 1..Len(extracted) :
         HasPrefix(extracted[k], TrimWhite(removeBulletPrefix(BulletLines(screen)[k])))

\* C31 for the first two glyphs: the same on screens where no line starts
\* with the third glyph followed by a space.
C31_RecDotOpenBlock ==
  (/\ ran /\ NoRule(screen)
   /\ \A i \in 1..Len(screen) : ~HasPrefix(TrimSpace(screen[i]), <<"STAR", " ">>)) =>
    /\ Len(extracted) = Len(BulletLines(screen))
    /\ \A k \in 1..Len(extracted) :
         HasPrefix(extracted[k], TrimWhite(removeBulletPrefix(BulletLines(screen)[k])))


\* a block the first-seen seeding wrote: msg_id 0 and no hash
FirstSeenSeed(cb) == cb.MsgID = 0 /\ cb.Hash = <<>>

\* C32: a sync that finds first-seen seeds in the cache sends no new chat
\* message for the text of any of them.
C32_FirstSeenNeverPosted ==
  [][(mpc \in {"sync", "final"} /\ mpc' # mpc) =>
       \A j \in 1..Len(cacheFile.Blocks), i \in 1..Len(apiWrites') :
         (FirstSeenSeed(cacheFile.Blocks[j]) /\ apiWrites'[i].op = "post")
           => apiWrites'[i].hash # blockHash(cacheFile.Blocks[j].Text)]_vars


\* C33: no two GET /d handlers stand in the download loop on one data
\* channel at the same time.
C33_OneReceiver ==
  \A i, j \in Ds :
    (i # j /\ reqs[i].pc = "loop" /\ reqs[j].pc = "loop") => reqs[i].ch # reqs[j].ch

\* C34: no handler closes a done channel or a data channel that is closed
\* already, and no handler dies with the lock of the transfer map held.
C34_NoDoubleClose ==
  [][/\ \A i \in 1..Len(reqs) :
          reqs[i].pc \in {"finish", "close"} => reqs'[i].pc # "panic"
     /\ ~muStuck']_vars

\* the steps the relay's handlers take on their own: every step but an
\* arriving request, a sweep, a receiver going away and an i/o failure
HandlerStep ==
  \E i \in 1..Len(reqs) :
    \/ DRecv(i) /\ UNCHANGED relayEvents
    \/ DClosed(i)
    \/ DFinish(i)
    \/ StreamSet(i)
    \/ StreamRead(i) /\ UNCHANGED relayEvents
    \/ StreamSend(i)
    \/ StreamClose(i)
    \/ StreamWait(i)

\* the goroutines of the handlers are scheduled as long as they can move
SpecRelayFair == SpecRelay /\ WF_varsRelay(HandlerStep)

Returned(i) == i \in DOMAIN reqs /\ reqs[i].pc \in {"done", "early", "panic"}

InFlightCancelled(i) ==
  /\ i \in DOMAIN reqs
  /\ ~Returned(i)
  /\ tHeap[reqs[i].t].Status = "cancelled"

\* C35: a handler in flight for a transfer that was cancelled or swept
\* returns in the end.
C35_CancelReleases ==
  \A i \in 1..MaxRequests : InFlightCancelled(i) ~> Returned(i)

\* C35 for the senders: a /stream handler in flight for a cancelled
\* transfer returns in the end.
C35_SenderReleased ==
  \A i \in 1..MaxRequests :
    (InFlightCancelled(i) /\ reqs[i].kind = "s") ~> Returned(i)


\* C36: the completion step of a poll sets Completed on the session's
\* monitor only if the StableCount it finds there is still at least
\* StableNeeded: a ResetSessionMonitor that returned in the meantime, and
\* put the count back to 0, is not undone.
C36_ResetNotUndone ==
  [][(mpc = "final" /\ mpc' = "tick" /\ pMon = monitors /\ monitors' = monitors)
       => (monHeap'[monitors].Completed
             => monHeap[monitors].StableCount >= StableNeeded)]_vars


(***************************************************************************)
(* The mirror with syncBlocksToTelegram in two steps: the capture and the  *)
(* load of the cache (monitor.go lines 305-311), then the chat API calls   *)
(* and the save (lines 320-373).  The dispatch loop can clear the session  *)
(* between the two.                                                        *)
(***************************************************************************)
\* lines 305-311 of the sync at line 508 or 518
SyncLoad ==
  /\ mpc \in {"sync", "final"}
  /\ mpc' = IF mpc = "sync" THEN "save" ELSE "fsave"
  /\ pCache' = [cache |-> loadBlockCache, blocks |-> pane]
  /\ Quiet
  /\ UNCHANGED <<pane, idle, live, envEvents, monHeap, monitors, cacheFile,
                 nextMsgID, pMon, pExists, pBlocks, prevPoll, curSame, seeded,
                 sendFailed, clearedAt>>

\* lines 320-374 of the sync at line 508
SyncSave ==
  /\ mpc = "save"
  /\ mpc' = "probe"
  /\ \E apiUp \in [0..Len(pCache.blocks) -> BOOLEAN] :
       LET r == syncBlocksToTelegram(pCache.cache, pCache.blocks, FALSE, apiUp, nextMsgID)
       IN  /\ cacheFile' = IF r.n = 0 THEN cacheFile ELSE saveBlockCache(r.cache)
           /\ nextMsgID' = r.next
           /\ apiWrites' = r.writes
  /\ pCache' = <<>>
  /\ inSuffix' = FALSE /\ finalSync' = FALSE
  /\ UNCHANGED <<pane, idle, live, envEvents, monHeap, monitors, pMon, pExists,
                 pBlocks, prevPoll, curSame, seeded, sendFailed, clearedAt>>

\* lines 320-374 of the sync at line 518, and lines 519-522
FinalSave ==
  /\ mpc = "fsave"
  /\ mpc' = "tick"
  /\ \E apiUp \in [0..Len(pCache.blocks) -> BOOLEAN] :
       LET r == syncBlocksToTelegram(pCache.cache, pCache.blocks, TRUE, apiUp, nextMsgID)
       IN  /\ cacheFile' = IF r.n = 0 THEN cacheFile ELSE saveBlockCache(r.cache)
           /\ IF r.n = 0
              THEN /\ apiWrites' = <<Write("post", apiUp[0],
                                           IF apiUp[0] THEN nextMsgID ELSE 0,
                                           <<>>, TRUE, <<>>)>>
                   /\ nextMsgID' = IF apiUp[0] THEN nextMsgID + 1 ELSE nextMsgID
              ELSE /\ apiWrites' = r.writes
                   /\ nextMsgID' = r.next
  /\ monHeap' = Collect([monHeap EXCEPT ![pMon].Completed = TRUE], {monitors})
  /\ pMon' = 0 /\ pExists' = FALSE /\ pBlocks' = <<>>
  /\ pCache' = <<>> /\ clearedAt' = 0
  /\ inSuffix' = FALSE /\ finalSync' = FALSE
  /\ UNCHANGED <<pane, idle, live, envEvents, monitors, prevPoll, curSame,
                 seeded, sendFailed>>

\* with a step of the poll that reads and writes no cache: the clear is
\* forgotten when the poll ends
PollStep ==
  /\ clearedAt' = IF mpc' = "tick" THEN 0 ELSE clearedAt
  /\ UNCHANGED pCache

\* ClearSessionMonitor runs while a poll of the session is in flight or not
ClearSeen ==
  /\ clearedAt' = IF mpc \in {"tick", "init"} THEN clearedAt ELSE nextMsgID
  /\ UNCHANGED pCache

NextMirrorRace ==
  \/ PaneChange /\ UNCHANGED varsRace /\ UNCHANGED <<varsRelay, varsHeadless, varsListen, varsDispatch, varsRegistry, varsConfig, varsOneShot, varsSplit, varsRedact, varsRewrite, varsSessions, varsExtract>>
  \/ IdleChange /\ UNCHANGED varsRace /\ UNCHANGED <<varsRelay, varsHeadless, varsListen, varsDispatch, varsRegistry, varsConfig, varsOneShot, varsSplit, varsRedact, varsRewrite, varsSessions, varsExtract>>
  \/ PollCapture /\ PollStep /\ UNCHANGED <<varsRelay, varsHeadless, varsListen, varsDispatch, varsRegistry, varsConfig, varsOneShot, varsSplit, varsRedact, varsRewrite, varsSessions, varsExtract>>
  \/ PollSeed /\ PollStep /\ UNCHANGED <<varsRelay, varsHeadless, varsListen, varsDispatch, varsRegistry, varsConfig, varsOneShot, varsSplit, varsRedact, varsRewrite, varsSessions, varsExtract>>
  \/ PollProbe /\ PollStep /\ UNCHANGED <<varsRelay, varsHeadless, varsListen, varsDispatch, varsRegistry, varsConfig, varsOneShot, varsSplit, varsRedact, varsRewrite, varsSessions, varsExtract>>
  \/ SyncLoad /\ UNCHANGED <<varsRelay, varsHeadless, varsListen, varsDispatch, varsRegistry, varsConfig, varsOneShot, varsSplit, varsRedact, varsRewrite, varsSessions, varsExtract>>
  \/ SyncSave /\ UNCHANGED <<varsRelay, varsHeadless, varsListen, varsDispatch, varsRegistry, varsConfig, varsOneShot, varsSplit, varsRedact, varsRewrite, varsSessions, varsExtract>>
  \/ FinalSave /\ UNCHANGED <<varsRelay, varsHeadless, varsListen, varsDispatch, varsRegistry, varsConfig, varsOneShot, varsSplit, varsRedact, varsRewrite, varsSessions, varsExtract>>
  \/ CommandContinue /\ ClearSeen /\ UNCHANGED <<varsRelay, varsHeadless, varsListen, varsDispatch, varsRegistry, varsConfig, varsOneShot, varsSplit, varsRedact, varsRewrite, varsSessions, varsExtract>>
  \/ CommandDelete /\ ClearSeen /\ UNCHANGED <<varsRelay, varsHeadless, varsListen, varsDispatch, varsRegistry, varsConfig, varsOneShot, varsSplit, varsRedact, varsRewrite, varsSessions, varsExtract>>

\* the mirror has posted the first block of a turn as message 1 and waits
\* for its next tick
InitMirrorRace ==
  /\ pane = <<<<"a">>>> /\ idle \in BOOLEAN /\ live = TRUE /\ envEvents = 0
  /\ monHeap = [m \in MonIds |-> IF m = 1
                  THEN [LastBlocks |-> <<<<"a">>>>, StableCount |-> 0,
                        Completed |-> FALSE]
                  ELSE NewMonitor]
  /\ monitors = 1
  /\ cacheFile = [exists |-> TRUE,
                  Blocks |-> <<CachedBlock(<<"a">>, 1, blockHash(<<"a">>))>>,
                  Hashes |-> MapPut(EmptyMap, blockHash(<<"a">>), 1)]
  /\ nextMsgID = 2 /\ mpc = "tick"
  /\ pMon = 0 /\ pExists = FALSE /\ pBlocks = <<>>
  /\ apiWrites = <<>> /\ prevPoll = NoPoll /\ curSame = FALSE
  /\ inSuffix = FALSE /\ finalSync = FALSE /\ seeded = {}
  /\ sendFailed = FALSE
  /\ pCache = <<>> /\ clearedAt = 0
  /\ updates = <<>> /\ confirmed = 0 /\ lpc = "down" /\ offset = 0
  /\ batch = <<>> /\ cur = 0 /\ goroutines = {} /\ finished = {}
  /\ effects = {} /\ exit = "none" /\ runs = 0
  /\ transfers = 0 /\ tHeap = <<>> /\ chans = <<>> /\ muStuck = FALSE
  /\ reqs = <<>> /\ relayEvents = 0 /\ spoiled = FALSE
  /\ dResp = [ua |-> "", method |-> "", code |-> 0]
  /\ busySessions = {} /\ calls = <<>> /\ agents = [n \in SessionNames |-> 0]
  /\ procs = <<>> /\ lockHolder = 0
  /\ file = [n \in SessionNames |-> [topic |-> 0, resume |-> 0]]
  /\ objs = <<>> /\ config = 0 /\ hpc = [cmd |-> "none"] /\ turn = <<>>
  /\ cli = [pc |-> "none"] /\ nextTopic = 1 /\ nextUUID = 1
  /\ stored = <<>> /\ regEvents = 0
  /\ cfgFile = <<>> /\ origFile = <<>> /\ loadResult = <<>>
  /\ firstResult = <<>> /\ loadCount = 0 /\ migrations = 0
  /\ jobs = <<>>
  /\ msgText = <<>> /\ parts = <<>> /\ cuts = <<>> /\ split = FALSE
  /\ botToken = <<>> /\ returned = <<>> /\ userText = <<>>
  /\ disk = 0 /\ wpc = <<>> /\ saves = 0 /\ seen = <<>>
  /\ sessions = {} /\ tmuxServer = {} /\ workDirs = {} /\ addressed = {}
  /\ probes = {} /\ lastText = <<>>
  /\ screen = <<>> /\ extracted = <<>> /\ ran = FALSE

SpecMirrorRace == InitMirrorRace /\ [][NextMirrorRace]_vars

\* the state SpecMirrorRace starts in, as SpecMirror reaches it
PostedFirstBlock ==
  /\ pane = <<<<"a">>>> /\ live /\ monitors # 0 /\ mpc = "tick"
  /\ monHeap[monitors].LastBlocks = <<<<"a">>>>
  /\ ~monHeap[monitors].Completed
  /\ cacheFile.Blocks = <<CachedBlock(<<"a">>, 1, blockHash(<<"a">>))>>
  /\ nextMsgID = 2

\* a cache holds a hash or a message id made before the given message id
HoldsOlder(cache, id) ==
  \/ \E h \in DOMAIN cache.Hashes : cache.Hashes[h] < id
  \/ \E i \in 1..Len(cache.Blocks) :
       cache.Blocks[i].MsgID # 0 /\ cache.Blocks[i].MsgID < id

\* C37: when a poll ends during which ClearSessionMonitor ran, the session
\* has no monitor entry and its cache file holds no hash and no message id
\* from before the clear.
C37_ClearNotUndone ==
  [][(clearedAt # 0 /\ mpc # "tick" /\ mpc' = "tick")
       => (monitors' = 0 /\ ~HoldsOlder(cacheFile', clearedAt))]_vars

\* C37, the monitor entry: when a poll ends during which
\* ClearSessionMonitor ran, the session has no monitor entry.
C37_EntryStaysDeleted ==
  [][(clearedAt # 0 /\ mpc # "tick" /\ mpc' = "tick") => monitors' = 0]_vars

=============================================================================
